---- MODULE Spec2Model ----
(***************************************************************************)
(* biostar: the incremental recomputation controller                       *)
(* (callbacks/results.py store_sims_components, store_sims_rollups), the   *)
(* hardware and sample edit callbacks that feed it (callbacks/record.py,   *)
(* configure.py, delete.py, import_export.py), the diff trackers           *)
(* (callbacks/diffs.py) and the propagation rules of modules/update.py.    *)
(*                                                                         *)
(* One action is one user edit together with the callback chain it starts: *)
(* edit callback -> *_broadcast (DeepDiff) -> store_sims_components ->      *)
(* *_increment -> store_sims_rollups.                                      *)
(*                                                                         *)
(* Random draws: every call of sim_component draws one outcome w of the    *)
(* generator from Draws; a draw vector is the token [scalar |-> FALSE,     *)
(* v |-> w], a deterministic number is [scalar |-> TRUE, v |-> n].         *)
(*                                                                         *)
(* A raised exception leaves the callback's output store as it was         *)
(* (raised = TRUE); so does PreventUpdate, and neither triggers the        *)
(* callbacks downstream.                                                   *)
(*                                                                         *)
(* Inputs: a session is the page load and at most MaxEvents user events;   *)
(* a new element or sample takes the first free name; an uploaded PPEL has *)
(* at most MaxUploadHw hardware rows (2D, total area 1) and one sample;    *)
(* import_pps and the group and project callbacks are not modelled.        *)
(***************************************************************************)
EXTENDS Integers, FiniteSets, Sequences, TLC

VARIABLES
    hardware,       \* hardware-json: id -> element
    samples,        \* datatable-samples: id -> row
    hardware_prev,  \* hardware-prev
    samples_prev,   \* samples-prev
    current_sims,   \* sims-components-json: [noop, sims]
    sims_rollups,   \* sims-rollups-json
    pc,             \* "load" before the first callback round, "import"
                    \* between the two stages of a PPEL import, else "idle"
                    \* ("call" and "done" around a single controller call)
    events,         \* number of user events so far
    last            \* what the last event's callback chain did

vars == <<hardware, samples, hardware_prev, samples_prev, current_sims,
          sims_rollups, pc, events, last>>

---------------------------------------------------------------------------
(* Bounds of the model *)

\* number of hardware ids the user can type
MaxHw == 3
\* number of sample ids the user can type
MaxSamp == 2
\* number of distinct outcomes of one random draw
NumDraws == 2
\* number of user events of a session (the page load is not counted)
MaxEvents == 3
\* number of hardware rows of an uploaded PPEL
MaxUploadHw == 2

HwNames == <<"h1", "h2", "h3", "h4", "h5", "h6", "h7">>
SampNames == <<"s1", "s2", "s3">>
Draws == 1..NumDraws

---------------------------------------------------------------------------
(* Values *)

\* Python None, and an empty form field ("" for text, falsy for numbers)
None == "None"
Blank == 0

Generic == "-- Generic --"
Analog == "Analog 1"
Sampled == "Sampled"
Implied == "Unsampled - Implied"
SpecType == "Unsampled - Spec"
Dim2D == "2D (Area)"
Dim3D == "3D (Volume)"
SpecClass == "Surface, ISO<=7, Bio Control"
SpecClass3D == "Encapsulated, Electronics Piece Parts"
Project == "-- Project --"

\* the metadata columns: one stands for all of them (the controller tests
\* membership in the list and nothing else)
HARDWARE_METADATA_COLUMNS == {"notes"}
SAMPLE_TABLE_METADATA_COLUMNS == {"Sampling_Notes"}
HardwareFields ==
    {"parent_id", "level", "is_component", "valid", "dim", "area", "volume",
     "type", "analogy", "implied_id", "spec", "notes"}
SampleFields ==
    {"Hardware_ID", "PP_Accountable", "Sampled_Area", "Sampled_Volume",
     "Sampling_Notes"}

\* the spec classes of a dimension (two of each list)
SPEC_ISO_CLASSES(dim) ==
    IF dim = Dim2D THEN {SpecClass, "Surface, ISO<=7, Particle Control"}
    ELSE {SpecClass3D, "Encapsulated, Non-metal Avg"}

\* density of a spec class, per m2 or per cm3
SPEC_DENSITY_MAP(dim, spec) ==
    CASE dim = Dim2D /\ spec = SpecClass -> 50
      [] dim = Dim2D /\ spec = "Surface, ISO<=7, Particle Control" -> 500
      [] dim = Dim3D /\ spec = SpecClass3D -> 150
      [] dim = Dim3D /\ spec = "Encapsulated, Non-metal Avg" -> 130

---------------------------------------------------------------------------
(* modules/parsing.py *)

\* EFFICIENCY_CONFIG by tag (device;device type;technique): a combination
\* with fitted parameters and one whose "params" names another combination
EFFICIENCY_CONFIG ==
    [tag \in {"Swab;Puritan Cotton;NASA Standard",
              "Swab;Puritan Cotton;ESA Standard"} |->
        [params_is_str |-> tag = "Swab;Puritan Cotton;ESA Standard"]]

\* the alert of one sample: "" when it is usable, "raise" when the lookup
\* hardware_dict[sample["Hardware ID"]] fails. Eff_Tag is sample_eff_tag of
\* the row, Pour_Fraction is in hundredths
detect_sample_alerts(sample, hardware_dict) ==
    IF sample.Hardware_ID \notin DOMAIN hardware_dict THEN "raise"
    ELSE LET dim == hardware_dict[sample.Hardware_ID].dim
             area_vol == IF dim = Dim2D THEN sample.Sampled_Area
                         ELSE sample.Sampled_Volume
         IN IF ~(area_vol > 0) THEN "area_vol"
            ELSE IF sample.Eff_Tag \notin DOMAIN EFFICIENCY_CONFIG
            THEN "categorical"
            ELSE IF EFFICIENCY_CONFIG[sample.Eff_Tag].params_is_str
            THEN "efficiency"
            ELSE IF ~(0 < sample.Pour_Fraction /\ sample.Pour_Fraction <= 100)
            THEN "fraction"
            ELSE IF ~(sample.CFU >= 0) THEN "cfu"
            ELSE ""

identify_valid_samples(samples_list, hardware_dict) ==
    {s \in DOMAIN samples_list :
        detect_sample_alerts(samples_list[s], hardware_dict) \in {"", "efficiency"}}

\* identify_valid_samples raises iff one sample names a missing element
ValidSamplesRaises(samples_list, hardware_dict) ==
    \E s \in DOMAIN samples_list :
        detect_sample_alerts(samples_list[s], hardware_dict) = "raise"

find_implied_hardware(hw_tgt_id, hw_tgt, hardware_dict) ==
    IF ~hw_tgt.valid \/ hw_tgt.type # Sampled THEN {}
    ELSE {i \in DOMAIN hardware_dict :
            /\ hardware_dict[i].valid
            /\ hardware_dict[i].type = Implied
            /\ hardware_dict[i].implied_id = hw_tgt_id}

Restrict(f, S) == [x \in S |-> f[x]]

\* the ids of S in the order the dictionaries of the model hold them
RECURSIVE InOrder(_, _)
InOrder(S, n) ==
    IF n > Len(HwNames) THEN <<>>
    ELSE (IF HwNames[n] \in S THEN <<HwNames[n]>> ELSE <<>>) \o InOrder(S, n + 1)
DictOrder(S) == InOrder(S, 1)

---------------------------------------------------------------------------
(* modules/update.py *)

Scalar(n) == [scalar |-> TRUE, v |-> n]
Vector(w) == [scalar |-> FALSE, v |-> w]
RaisedSim == [ok |-> FALSE, rec |-> [mode |-> "none"]]

\* the accountable rows of the component among the rows handed in
SimSamples(id, samples_list) ==
    {s \in DOMAIN samples_list :
        /\ samples_list[s].Hardware_ID = id
        /\ samples_list[s].PP_Accountable = "Yes"}

\* variant: the CFU of a spec component is its density, not scaled by the
\* extent
sim_component_density_cfu(id, hw, samples_list, sims, w) ==
    LET exposure == IF hw.dim = Dim2D THEN hw.area ELSE hw.volume
    IN IF hw.type = SpecType THEN
         IF hw.spec \notin SPEC_ISO_CLASSES(hw.dim) THEN RaisedSim
         ELSE
         [ok |-> TRUE,
          rec |-> [mode |-> "spec", link |-> None,
                   lambda |-> Scalar(SPEC_DENSITY_MAP(hw.dim, hw.spec)),
                   cfu |-> Scalar(SPEC_DENSITY_MAP(hw.dim, hw.spec))]]
       ELSE IF exposure = Blank THEN RaisedSim
       ELSE IF hw.type = Implied THEN
         IF hw.implied_id \notin DOMAIN sims THEN RaisedSim
         ELSE [ok |-> TRUE,
               rec |-> [mode |-> "implied", link |-> hw.implied_id,
                        lambda |-> sims[hw.implied_id].lambda,
                        cfu |-> [scalar |-> sims[hw.implied_id].lambda.scalar,
                                 v |-> w]]]
       ELSE IF hw.analogy \notin {Generic, Analog} THEN RaisedSim
       ELSE IF SimSamples(id, samples_list) # {} THEN
         [ok |-> TRUE,
          rec |-> [mode |-> "posterior", link |-> hw.analogy,
                   lambda |-> Vector(w), cfu |-> Vector(w)]]
       ELSE IF hw.analogy = Generic THEN RaisedSim
       ELSE [ok |-> TRUE,
             rec |-> [mode |-> "prior", link |-> hw.analogy,
                      lambda |-> Vector(w), cfu |-> Vector(w)]]

\* variant: the implied branch draws a density of its own instead of taking
\* the linked record's
sim_component_implied_resampled(id, hw, samples_list, sims, w) ==
    LET exposure == IF hw.dim = Dim2D THEN hw.area ELSE hw.volume
    IN IF hw.type = SpecType THEN
         IF hw.spec \notin SPEC_ISO_CLASSES(hw.dim) THEN RaisedSim
         ELSE
         [ok |-> TRUE,
          rec |-> [mode |-> "spec", link |-> None,
                   lambda |-> Scalar(SPEC_DENSITY_MAP(hw.dim, hw.spec)),
                   cfu |-> Scalar(SPEC_DENSITY_MAP(hw.dim, hw.spec) * exposure)]]
       ELSE IF exposure = Blank THEN RaisedSim
       ELSE IF hw.type = Implied THEN
         IF hw.implied_id \notin DOMAIN sims THEN RaisedSim
         ELSE [ok |-> TRUE,
               rec |-> [mode |-> "implied", link |-> hw.implied_id,
                        lambda |-> Vector(w),
                        cfu |-> [scalar |-> sims[hw.implied_id].lambda.scalar,
                                 v |-> w]]]
       ELSE IF hw.analogy \notin {Generic, Analog} THEN RaisedSim
       ELSE IF SimSamples(id, samples_list) # {} THEN
         [ok |-> TRUE,
          rec |-> [mode |-> "posterior", link |-> hw.analogy,
                   lambda |-> Vector(w), cfu |-> Vector(w)]]
       ELSE IF hw.analogy = Generic THEN RaisedSim
       ELSE [ok |-> TRUE,
             rec |-> [mode |-> "prior", link |-> hw.analogy,
                      lambda |-> Vector(w), cfu |-> Vector(w)]]

\* sim_component(hw, samples_list, current_sims) with generator outcome w;
\* ok = FALSE when the call raises (a missing store key, a missing analog or
\* spec class, draws multiplied by an empty extent). The CFU of the implied
\* branch has the shape of the linked density: sim_cfu of a scalar is a
\* scalar
sim_component(id, hw, samples_list, sims, w) ==
    LET exposure == IF hw.dim = Dim2D THEN hw.area ELSE hw.volume
    IN IF hw.type = SpecType THEN
         IF hw.spec \notin SPEC_ISO_CLASSES(hw.dim) THEN RaisedSim
         ELSE
         [ok |-> TRUE,
          rec |-> [mode |-> "spec", link |-> None,
                   lambda |-> Scalar(SPEC_DENSITY_MAP(hw.dim, hw.spec)),
                   cfu |-> Scalar(SPEC_DENSITY_MAP(hw.dim, hw.spec) * exposure)]]
       ELSE IF exposure = Blank THEN RaisedSim
       ELSE IF hw.type = Implied THEN
         IF hw.implied_id \notin DOMAIN sims THEN RaisedSim
         ELSE [ok |-> TRUE,
               rec |-> [mode |-> "implied", link |-> hw.implied_id,
                        lambda |-> sims[hw.implied_id].lambda,
                        cfu |-> [scalar |-> sims[hw.implied_id].lambda.scalar,
                                 v |-> w]]]
       ELSE IF hw.analogy \notin {Generic, Analog} THEN RaisedSim
       ELSE IF SimSamples(id, samples_list) # {} THEN
         [ok |-> TRUE,
          rec |-> [mode |-> "posterior", link |-> hw.analogy,
                   lambda |-> Vector(w), cfu |-> Vector(w)]]
       ELSE IF hw.analogy = Generic THEN RaisedSim
       ELSE [ok |-> TRUE,
             rec |-> [mode |-> "prior", link |-> hw.analogy,
                      lambda |-> Vector(w), cfu |-> Vector(w)]]

---------------------------------------------------------------------------
(* callbacks/diffs.py: DeepDiff(previous, current) as the classified diff *)

NoDiff == [root |-> FALSE, added |-> {}, removed |-> {}, changed |-> {}]

\* hardware_broadcast. DeepDiff reports a dictionary whose keys overlap the
\* previous keys by less than a third (threshold_to_diff_deeper) as one
\* changed value at "root"
hardware_broadcast(hardware_prev_, hardware_dict) ==
    LET t1 == DOMAIN hardware_prev_
        t2 == DOMAIN hardware_dict
        both == t1 \cap t2
        union == t1 \cup t2
    IN IF Cardinality(union) > 1 /\ 3 * Cardinality(both) < Cardinality(union)
       THEN [NoDiff EXCEPT !.root = TRUE]
       ELSE [root |-> FALSE,
             added |-> t2 \ t1,
             removed |-> t1 \ t2,
             changed |-> {<<i, f>> \in both \X HardwareFields :
                            hardware_prev_[i][f] # hardware_dict[i][f]}]

\* samples_broadcast (ignore_order: rows are matched by content, here by id)
samples_broadcast(samples_prev_, samples_list) ==
    LET t1 == DOMAIN samples_prev_
        t2 == DOMAIN samples_list
    IN [root |-> FALSE,
        added |-> t2 \ t1,
        removed |-> t1 \ t2,
        changed |-> {<<i, f>> \in (t1 \cap t2) \X SampleFields :
                        samples_prev_[i][f] # samples_list[i][f]}]

\* reduce(reduce_deefdiff_edits, ...): the attributes changed at one index
update_attrs(update, idx) == {c[2] : c \in {d \in update.changed : d[1] = idx}}
update_idxs(update) == {c[1] : c \in update.changed}

---------------------------------------------------------------------------
(* callbacks/results.py: store_sims_components *)

EmptyMap == [x \in {} |-> TRUE]

\* the working copy of current_sims inside one call; ok = FALSE once a
\* statement has raised; simmed and deleted record which keys the call wrote,
\* inputs the sample rows the calls of sim_component took as likelihood data
Work(cs) ==
    [ok |-> TRUE, noop |-> cs.noop, sims |-> cs.sims, simmed |-> {},
     inputs |-> {}, deleted |-> {}]
Failed(st) == [st EXCEPT !.ok = FALSE]
SetNoop(st, b) == [st EXCEPT !.noop = b]

\* del current_sims["sims"][i] for every i of ids (KeyError on a missing key)
DelSims(st, ids) ==
    IF ~st.ok \/ ~(ids \subseteq DOMAIN st.sims) THEN Failed(st)
    ELSE [st EXCEPT !.sims = Restrict(st.sims, DOMAIN st.sims \ ids),
                    !.deleted = st.deleted \cup ids]

\* current_sims["sims"][i] = sim_component(hw_i, rows, current_sims) for every
\* i of ids; the calls of one loop do not read each other's records
SimInto(st, ids, hardware_dict, rows, w) ==
    IF ~st.ok THEN st
    ELSE LET r(i) == sim_component(i, hardware_dict[i], rows, st.sims, w[i])
             used(i) == IF hardware_dict[i].type \in {SpecType, Implied}
                        THEN {}
                        ELSE SimSamples(i, rows)
         IN IF \E i \in ids : ~r(i).ok THEN Failed(st)
            ELSE [st EXCEPT !.sims =
                    [i \in DOMAIN st.sims \cup ids |->
                        IF i \in ids THEN r(i).rec ELSE st.sims[i]],
                    !.simmed = st.simmed \cup ids,
                    !.inputs = st.inputs \cup UNION {used(i) : i \in ids}]

\* variant: the implied records first, the component's own record after them
SimImpliedFirst(st, id, implied, hardware_dict, rows, w) ==
    SimInto(SimInto(st, implied, hardware_dict, rows, w), {id},
            hardware_dict, rows, w)

\* variant: every record of the store is drawn again with the component's
SimWithImpliedAll(st, id, implied, hardware_dict, rows, w) ==
    SimInto(SimInto(st, {id}, hardware_dict, rows, w),
            implied \cup ((DOMAIN st.sims \cap DOMAIN hardware_dict) \ {id}),
            hardware_dict, rows, w)

\* a component's record, then the records of the components implied from it
SimWithImplied(st, id, implied, hardware_dict, rows, w) ==
    SimInto(SimInto(st, {id}, hardware_dict, rows, w), implied,
            hardware_dict, rows, w)

\* what one call of the callback gives: a raised exception, PreventUpdate
\* (nothing published), or the returned store
Raise(cs) ==
    [raised |-> TRUE, publish |-> FALSE, out |-> cs, simmed |-> {}, inputs |-> {},
     deleted |-> {}]
PreventUpdate(cs) ==
    [raised |-> FALSE, publish |-> FALSE, out |-> cs, simmed |-> {}, inputs |-> {},
     deleted |-> {}]
Return(cs, st) ==
    IF ~st.ok THEN Raise(cs)
    ELSE [raised |-> FALSE, publish |-> TRUE,
          out |-> [noop |-> st.noop, sims |-> st.sims],
          simmed |-> st.simmed, inputs |-> st.inputs, deleted |-> st.deleted]

\* the nested is_eligible(hw) over samples_list_valid
is_eligible(id, hw, rows_valid) ==
    IF hw.analogy # Generic THEN hw.valid
    ELSE hw.valid /\ \E s \in DOMAIN rows_valid :
                        /\ rows_valid[s].Hardware_ID = id
                        /\ rows_valid[s].PP_Accountable = "Yes"

\* the loops of Case 2.1: one call after the other, in dictionary order
RECURSIVE SimSeq(_, _, _, _, _)
SimSeq(st, order, hardware_dict, rows, w) ==
    IF order = <<>> THEN st
    ELSE SimSeq(SimInto(st, {Head(order)}, hardware_dict, rows, w),
                Tail(order), hardware_dict, rows, w)

\* variant: the implied loop before the loop of the other components
BatchImportImpliedFirst(hardware_dict, rows_valid, w) ==
    LET elig == {i \in DOMAIN hardware_dict :
                    is_eligible(i, hardware_dict[i], rows_valid)}
        st0 == [ok |-> TRUE, noop |-> FALSE, sims |-> EmptyMap,
                simmed |-> {}, inputs |-> {}, deleted |-> {}]
        st1 == SimSeq(st0, DictOrder({i \in elig : hardware_dict[i].type = Implied}),
                      hardware_dict, rows_valid, w)
    IN SimSeq(st1, DictOrder({i \in elig : hardware_dict[i].type # Implied}),
              hardware_dict, rows_valid, w)

\* Case 2.1: batch import, implied components last
BatchImport(hardware_dict, rows_valid, w) ==
    LET elig == {i \in DOMAIN hardware_dict :
                    is_eligible(i, hardware_dict[i], rows_valid)}
        st0 == [ok |-> TRUE, noop |-> FALSE, sims |-> EmptyMap,
                simmed |-> {}, inputs |-> {}, deleted |-> {}]
        st1 == SimSeq(st0, DictOrder({i \in elig : hardware_dict[i].type # Implied}),
                      hardware_dict, rows_valid, w)
    IN SimSeq(st1, DictOrder({i \in elig : hardware_dict[i].type = Implied}),
              hardware_dict, rows_valid, w)

\* Case 2.2: single added hardware element
HardwareAdded(update, hardware_dict, hardware_prev_, rows_valid, cs, w) ==
    LET added == CHOOSE i \in update.added : TRUE
        added_res == hardware_dict[added]
        implied_added == find_implied_hardware(added, added_res, hardware_dict)
        coerced == CHOOSE i \in update_idxs(update) : TRUE
        coerced_res == hardware_prev_[coerced]
        implied_coerced ==
            find_implied_hardware(coerced, coerced_res, hardware_dict)
        st0 == Work(cs)
        st1 == IF is_eligible(coerced, coerced_res, rows_valid)
               THEN SetNoop(DelSims(DelSims(st0, {coerced}), implied_coerced),
                            FALSE)
               ELSE st0
        st2 == IF is_eligible(added, added_res, rows_valid)
               THEN SetNoop(SimWithImplied(st1, added, implied_added,
                                           hardware_dict, rows_valid, w), FALSE)
               ELSE st1
    IN IF update.changed # {} THEN Return(cs, st2)
       ELSE IF ~is_eligible(added, added_res, rows_valid)
       THEN Return(cs, SetNoop(st0, TRUE))
       ELSE Return(cs, SetNoop(SimWithImplied(st0, added, implied_added,
                                   hardware_dict, rows_valid, w), FALSE))

\* Case 2.3: component(s) removed
HardwareRemoved(update, hardware_dict, hardware_prev_, rows_valid, cs) ==
    LET hit == {r \in update.removed :
                  \/ is_eligible(r, hardware_prev_[r], rows_valid)
                  \/ r \in DOMAIN cs.sims}
        gone == hit \cup UNION {find_implied_hardware(r, hardware_prev_[r],
                                                      hardware_dict) : r \in hit}
    IN Return(cs, SetNoop(DelSims(Work(cs), gone), hit = {}))

\* Case 2.4, one edited element of the loop
HardwareEditedOne(st, idx, attrs, hardware_dict, hardware_prev_, rows_valid, w) ==
    LET old == hardware_prev_[idx]
        new == hardware_dict[idx]
        implied == find_implied_hardware(idx, new, hardware_dict)
    IN IF attrs \subseteq HARDWARE_METADATA_COLUMNS THEN st
       ELSE IF ~(is_eligible(idx, old, rows_valid)
                 \/ is_eligible(idx, new, rows_valid)) THEN st
       ELSE IF ~is_eligible(idx, new, rows_valid)
       THEN SetNoop(DelSims(DelSims(st, {idx}), implied), FALSE)
       ELSE SetNoop(SimWithImplied(st, idx, implied, hardware_dict,
                                   rows_valid, w), FALSE)

RECURSIVE HardwareEditedLoop(_, _, _, _, _, _, _)
HardwareEditedLoop(st, idxs, update, hardware_dict, hardware_prev_, rows_valid, w) ==
    IF idxs = {} THEN st
    ELSE LET idx == CHOOSE i \in idxs : TRUE
         IN HardwareEditedLoop(
              HardwareEditedOne(st, idx, update_attrs(update, idx),
                                hardware_dict, hardware_prev_, rows_valid, w),
              idxs \ {idx}, update, hardware_dict, hardware_prev_, rows_valid, w)

\* variant: every edited eligible element is re-simulated, whatever columns
\* the edit touched
HardwareEditedResim(update, hardware_dict, hardware_prev_, rows_valid, cs, w) ==
    Return(cs, SetNoop(SimInto(Work(cs),
                   {i \in update_idxs(update) :
                       is_eligible(i, hardware_dict[i], rows_valid)},
                   hardware_dict, rows_valid, w), FALSE))

\* Case 2.4: existing component(s) edited. noops starts as all([]) = True
HardwareEdited(update, hardware_dict, hardware_prev_, rows_valid, cs, w) ==
    IF \A c \in update.changed : c[2] \in HARDWARE_METADATA_COLUMNS
    THEN PreventUpdate(cs)
    ELSE Return(cs, HardwareEditedLoop(SetNoop(Work(cs), TRUE),
                        update_idxs(update), update, hardware_dict,
                        hardware_prev_, rows_valid, w))

\* Case 1.1, one updated hardware id of the loop
SamplesAddedRemovedOne(st, hw_id, update_res, hardware_dict, rows_valid, w) ==
    IF ~st.ok \/ hw_id \notin DOMAIN hardware_dict THEN Failed(st)
    ELSE LET hw == hardware_dict[hw_id]
             implied == find_implied_hardware(hw_id, hw, hardware_dict)
         IN IF /\ is_eligible(hw_id, hw, rows_valid)
               /\ \E s \in DOMAIN update_res :
                     /\ update_res[s].Hardware_ID = hw_id
                     /\ update_res[s].PP_Accountable = "Yes"
            THEN SetNoop(SimWithImplied(st, hw_id, implied, hardware_dict,
                                        rows_valid, w), FALSE)
            ELSE IF hw_id \in DOMAIN st.sims
                    /\ ~is_eligible(hw_id, hw, rows_valid)
            THEN SetNoop(DelSims(st, {hw_id}), FALSE)
            ELSE st

RECURSIVE SamplesAddedRemovedLoop(_, _, _, _, _, _)
SamplesAddedRemovedLoop(st, hw_ids, update_res, hardware_dict, rows_valid, w) ==
    IF hw_ids = {} THEN st
    ELSE LET hw_id == CHOOSE i \in hw_ids : TRUE
         IN SamplesAddedRemovedLoop(
              SamplesAddedRemovedOne(st, hw_id, update_res, hardware_dict,
                                     rows_valid, w),
              hw_ids \ {hw_id}, update_res, hardware_dict, rows_valid, w)

\* Case 1.1: sample(s) added or removed
SamplesAddedRemoved(update, hardware_dict, samples_list, samples_prev_, samples_valid, cs, w) ==
    LET update_res == IF update.added # {}
                      THEN Restrict(samples_list, update.added)
                      ELSE Restrict(samples_prev_, update.removed)
        updated_hw_ids == {update_res[s].Hardware_ID : s \in DOMAIN update_res}
        rows_valid == Restrict(samples_list, samples_valid)
    IN IF update.added # {} /\ update.added \cap samples_valid = {}
       THEN Return(cs, SetNoop(Work(cs), TRUE))
       ELSE Return(cs, SamplesAddedRemovedLoop(SetNoop(Work(cs), TRUE),
                           updated_hw_ids, update_res, hardware_dict,
                           rows_valid, w))

\* Case 1.2, one edited sample of the loop; the re-simulation is handed
\* samples_list, not samples_list_valid
SampleEditedOne(st, idx, attrs, hardware_dict, samples_list, samples_prev_, samples_valid, w) ==
    IF attrs \subseteq SAMPLE_TABLE_METADATA_COLUMNS THEN st
    ELSE IF ~st.ok \/ samples_list[idx].Hardware_ID \notin DOMAIN hardware_dict
    THEN Failed(st)
    ELSE LET new == samples_list[idx]
             old == samples_prev_[idx]
             hw_id == new.Hardware_ID
             hw == hardware_dict[hw_id]
             implied == find_implied_hardware(hw_id, hw, hardware_dict)
             rows_valid == Restrict(samples_list, samples_valid)
         IN IF \/ ~is_eligible(hw_id, hw, rows_valid)
               \/ (idx \notin samples_valid /\ idx \notin samples_valid)
               \/ (new.PP_Accountable # "Yes" /\ old.PP_Accountable # "Yes")
            THEN st
            ELSE SetNoop(SimWithImplied(st, hw_id, implied, hardware_dict,
                                        samples_list, w), FALSE)

RECURSIVE SampleEditedLoop(_, _, _, _, _, _, _, _)
SampleEditedLoop(st, idxs, update, hardware_dict, samples_list, samples_prev_, samples_valid, w) ==
    IF idxs = {} THEN st
    ELSE LET idx == CHOOSE i \in idxs : TRUE
         IN SampleEditedLoop(
              SampleEditedOne(st, idx, update_attrs(update, idx), hardware_dict,
                              samples_list, samples_prev_, samples_valid, w),
              idxs \ {idx}, update, hardware_dict, samples_list, samples_prev_,
              samples_valid, w)

\* variant: a metadata-only edit returns the store with the flag set
SampleEditedPublish(update, hardware_dict, samples_list, samples_prev_, samples_valid, cs, w) ==
    Return(cs, SampleEditedLoop(SetNoop(Work(cs), TRUE),
               update_idxs(update), update, hardware_dict,
               samples_list, samples_prev_, samples_valid, w))

\* Case 1.2: sample is edited
SampleEdited(update, hardware_dict, samples_list, samples_prev_, samples_valid, cs, w) ==
    IF \A c \in update.changed : c[2] \in SAMPLE_TABLE_METADATA_COLUMNS
    THEN PreventUpdate(cs)
    ELSE Return(cs, SampleEditedLoop(SetNoop(Work(cs), TRUE),
                        update_idxs(update), update, hardware_dict,
                        samples_list, samples_prev_, samples_valid, w))

IsEmptyDiff(update) ==
    ~update.root /\ update.added = {} /\ update.removed = {}
    /\ update.changed = {}

\* variant: a hardware diff of no known shape is skipped without an error
store_sims_components_silent(hw_triggered, hardware_diff, samples_diff, hardware_dict, samples_list, hardware_prev_, samples_prev_, cs, w) ==
    IF ValidSamplesRaises(samples_list, hardware_dict) THEN Raise(cs)
    ELSE
    LET samples_valid == identify_valid_samples(samples_list, hardware_dict)
        rows_valid == Restrict(samples_list, samples_valid)
    IN IF hw_triggered THEN
         IF IsEmptyDiff(hardware_diff) THEN PreventUpdate(cs)
         ELSE IF hardware_diff.root
         THEN Return(cs, BatchImport(hardware_dict, rows_valid, w))
         ELSE IF Cardinality(hardware_diff.added) = 1
         THEN HardwareAdded(hardware_diff, hardware_dict, hardware_prev_,
                            rows_valid, cs, w)
         ELSE IF hardware_diff.removed # {}
         THEN HardwareRemoved(hardware_diff, hardware_dict, hardware_prev_,
                              rows_valid, cs)
         ELSE IF hardware_diff.changed # {}
         THEN HardwareEdited(hardware_diff, hardware_dict, hardware_prev_,
                             rows_valid, cs, w)
         ELSE PreventUpdate(cs)
       ELSE
         IF IsEmptyDiff(samples_diff) THEN PreventUpdate(cs)
         ELSE IF samples_diff.added # {} \/ samples_diff.removed # {}
         THEN SamplesAddedRemoved(samples_diff, hardware_dict, samples_list,
                                  samples_prev_, samples_valid, cs, w)
         ELSE SampleEdited(samples_diff, hardware_dict, samples_list,
                           samples_prev_, samples_valid, cs, w)

\* store_sims_components: hw_triggered is "hardware-diff.data" in
\* ctx.triggered_prop_ids; cs is the State sims-components-json
store_sims_components(hw_triggered, hardware_diff, samples_diff, hardware_dict, samples_list, hardware_prev_, samples_prev_, cs, w) ==
    IF ValidSamplesRaises(samples_list, hardware_dict) THEN Raise(cs)
    ELSE
    LET samples_valid == identify_valid_samples(samples_list, hardware_dict)
        rows_valid == Restrict(samples_list, samples_valid)
    IN IF hw_triggered THEN
         IF IsEmptyDiff(hardware_diff) THEN PreventUpdate(cs)
         ELSE IF hardware_diff.root
         THEN Return(cs, BatchImport(hardware_dict, rows_valid, w))
         ELSE IF Cardinality(hardware_diff.added) = 1
         THEN HardwareAdded(hardware_diff, hardware_dict, hardware_prev_,
                            rows_valid, cs, w)
         ELSE IF hardware_diff.removed # {}
         THEN HardwareRemoved(hardware_diff, hardware_dict, hardware_prev_,
                              rows_valid, cs)
         ELSE IF hardware_diff.changed # {}
         THEN HardwareEdited(hardware_diff, hardware_dict, hardware_prev_,
                             rows_valid, cs, w)
         ELSE Raise(cs)
       ELSE
         IF IsEmptyDiff(samples_diff) THEN PreventUpdate(cs)
         ELSE IF samples_diff.added # {} \/ samples_diff.removed # {}
         THEN SamplesAddedRemoved(samples_diff, hardware_dict, samples_list,
                                  samples_prev_, samples_valid, cs, w)
         ELSE SampleEdited(samples_diff, hardware_dict, samples_list,
                           samples_prev_, samples_valid, cs, w)

---------------------------------------------------------------------------
(* callbacks/results.py: store_sims_rollups *)

RECURSIVE GCD(_, _)
GCD(a, b) == IF b = 0 THEN a ELSE GCD(b, a % b)

\* numbers of the aggregator: num/den in lowest terms, scalar or draw vector
Rat(scalar, num, den) ==
    LET g == IF num = 0 THEN den ELSE GCD(num, den)
    IN [scalar |-> scalar, num |-> num \div g, den |-> den \div g]
Zero == [scalar |-> TRUE, num |-> 0, den |-> 1]
FromSim(x) == Rat(x.scalar, x.v, 1)
\* variant: the sum is a scalar as soon as one operand is
RatAddAnyScalar(a, b) ==
    Rat(a.scalar \/ b.scalar, a.num * b.den + b.num * a.den, a.den * b.den)
RatAdd(a, b) ==
    Rat(a.scalar /\ b.scalar, a.num * b.den + b.num * a.den, a.den * b.den)
RatScale(k, a) == Rat(a.scalar, k * a.num, a.den)
\* variant: the weighted sum is not divided by the total extent
RatDivNone(a, k) == a
RatDiv(a, k) == Rat(a.scalar, a.num, a.den * k)

empty_res == [lambda |-> Zero, cfu |-> Zero, total |-> 0, sampled |-> 0]

\* the usable accountable rows of a component, as handle_child selects them
ChildSamples(id, samples_list, samples_valid) ==
    {s \in DOMAIN samples_list :
        /\ samples_list[s].Hardware_ID = id
        /\ samples_list[s].PP_Accountable = "Yes"
        /\ s \in samples_valid}

RECURSIVE SumOver(_, _)
SumOver(S, f) ==
    IF S = {} THEN 0
    ELSE LET x == CHOOSE y \in S : TRUE IN f[x] + SumOver(S \ {x}, f)

\* the element and the rollups above it
RECURSIVE Ancestry(_, _)
Ancestry(i, hardware_dict) ==
    IF hardware_dict[i].parent_id = None THEN {i}
    ELSE {i} \cup Ancestry(hardware_dict[i].parent_id, hardware_dict)

\* variant: the rollups above an eligible element are not listed
find_eligible_hardware_ids_flat(hardware_dict, samples_list) ==
    LET samples_valid == identify_valid_samples(samples_list, hardware_dict)
        found == {i \in DOMAIN hardware_dict :
                    ~(\/ ~hardware_dict[i].valid
                      \/ /\ hardware_dict[i].analogy = Generic
                         /\ ChildSamples(i, samples_list, samples_valid) = {})}
        levels == {hardware_dict[i].level : i \in found}
                  \cup (IF found = {} THEN {} ELSE {1})
    IN [l \in levels |->
          IF l = 1 THEN {Project}
          ELSE {i \in found : hardware_dict[i].level = l}]

\* variant: a valid element is listed whatever its samples
find_eligible_hardware_ids_valid_only(hardware_dict, samples_list) ==
    LET found == {i \in DOMAIN hardware_dict : hardware_dict[i].valid}
        walked == UNION {Ancestry(i, hardware_dict) : i \in found}
        levels == {hardware_dict[i].level : i \in walked}
                  \cup (IF found = {} THEN {} ELSE {1})
    IN [l \in levels |->
          IF l = 1 THEN {Project}
          ELSE {i \in walked : hardware_dict[i].level = l}]

\* parsing.py find_eligible_hardware_ids: level -> ids
find_eligible_hardware_ids(hardware_dict, samples_list) ==
    LET samples_valid == identify_valid_samples(samples_list, hardware_dict)
        found == {i \in DOMAIN hardware_dict :
                    ~(\/ ~hardware_dict[i].valid
                      \/ /\ hardware_dict[i].analogy = Generic
                         /\ ChildSamples(i, samples_list, samples_valid) = {})}
        walked == UNION {Ancestry(i, hardware_dict) : i \in found}
        levels == {hardware_dict[i].level : i \in walked}
                  \cup (IF found = {} THEN {} ELSE {1})
    IN [l \in levels |->
          IF l = 1 THEN {Project}
          ELSE {i \in walked : hardware_dict[i].level = l}]

\* variant: only an invalid component is left out
handle_child_generic_counts(child, sims, hardware_dict, samples_list, samples_valid, rollups) ==
    LET hw == hardware_dict[child]
        own == ChildSamples(child, samples_list, samples_valid)
    IN IF hw.is_component THEN
         IF ~hw.valid
         THEN [ok |-> TRUE, res |-> <<empty_res, empty_res>>]
         ELSE IF child \notin DOMAIN sims.sims
         THEN [ok |-> FALSE, res |-> <<empty_res, empty_res>>]
         ELSE IF hw.dim = Dim2D
         THEN [ok |-> TRUE,
               res |-> <<[lambda |-> FromSim(sims.sims[child].lambda),
                          cfu |-> FromSim(sims.sims[child].cfu),
                          total |-> hw.area,
                          sampled |-> SumOver(own,
                              [s \in own |-> samples_list[s].Sampled_Area])],
                         empty_res>>]
         ELSE [ok |-> TRUE,
               res |-> <<empty_res,
                         [lambda |-> FromSim(sims.sims[child].lambda),
                          cfu |-> FromSim(sims.sims[child].cfu),
                          total |-> hw.volume,
                          sampled |-> SumOver(own,
                              [s \in own |-> samples_list[s].Sampled_Volume])]>>]
       ELSE IF child \notin DOMAIN rollups
       THEN [ok |-> FALSE, res |-> <<empty_res, empty_res>>]
       ELSE [ok |-> TRUE, res |-> rollups[child]]

\* handle_child: <<area result, volume result>> of one child, ok = FALSE when
\* the lookup of the child's record or aggregate raises KeyError
handle_child(child, sims, hardware_dict, samples_list, samples_valid, rollups) ==
    LET hw == hardware_dict[child]
        own == ChildSamples(child, samples_list, samples_valid)
    IN IF hw.is_component THEN
         IF ~hw.valid \/ (hw.analogy = Generic /\ own = {})
         THEN [ok |-> TRUE, res |-> <<empty_res, empty_res>>]
         ELSE IF child \notin DOMAIN sims.sims
         THEN [ok |-> FALSE, res |-> <<empty_res, empty_res>>]
         ELSE IF hw.dim = Dim2D
         THEN [ok |-> TRUE,
               res |-> <<[lambda |-> FromSim(sims.sims[child].lambda),
                          cfu |-> FromSim(sims.sims[child].cfu),
                          total |-> hw.area,
                          sampled |-> SumOver(own,
                              [s \in own |-> samples_list[s].Sampled_Area])],
                         empty_res>>]
         ELSE [ok |-> TRUE,
               res |-> <<empty_res,
                         [lambda |-> FromSim(sims.sims[child].lambda),
                          cfu |-> FromSim(sims.sims[child].cfu),
                          total |-> hw.volume,
                          sampled |-> SumOver(own,
                              [s \in own |-> samples_list[s].Sampled_Volume])]>>]
       ELSE IF child \notin DOMAIN rollups
       THEN [ok |-> FALSE, res |-> <<empty_res, empty_res>>]
       ELSE [ok |-> TRUE, res |-> rollups[child]]

\* variant: the total extent is that of the last child, not the sum
RECURSIVE ReduceDimLastTotal(_, _, _, _)
ReduceDimLastTotal(children, results, d, acc) ==
    IF children = {} THEN
        [lambda |-> IF acc.total # 0 THEN RatDiv(acc.lambda, acc.total)
                    ELSE acc.lambda,
         cfu |-> acc.cfu, total |-> acc.total, sampled |-> acc.sampled]
    ELSE LET c == CHOOSE x \in children : TRUE
             res == results[c][d]
         IN ReduceDimLastTotal(children \ {c}, results, d,
                [lambda |-> RatAdd(acc.lambda, RatScale(res.total, res.lambda)),
                 cfu |-> RatAdd(acc.cfu, res.cfu),
                 total |-> res.total,
                 sampled |-> acc.sampled + res.sampled])

\* reduce_child_results for one dimension d (1 = area, 2 = volume)
RECURSIVE ReduceDim(_, _, _, _)
ReduceDim(children, results, d, acc) ==
    IF children = {} THEN
        [lambda |-> IF acc.total # 0 THEN RatDiv(acc.lambda, acc.total)
                    ELSE acc.lambda,
         cfu |-> acc.cfu, total |-> acc.total, sampled |-> acc.sampled]
    ELSE LET c == CHOOSE x \in children : TRUE
             res == results[c][d]
         IN ReduceDim(children \ {c}, results, d,
                [lambda |-> RatAdd(acc.lambda, RatScale(res.total, res.lambda)),
                 cfu |-> RatAdd(acc.cfu, res.cfu),
                 total |-> acc.total + res.total,
                 sampled |-> acc.sampled + res.sampled])

reduce_child_results(children, results) ==
    <<ReduceDim(children, results, 1, empty_res),
      ReduceDim(children, results, 2, empty_res)>>

\* one rollup node (or the project root) from its children
RollupOf(children, sims, hardware_dict, samples_list, samples_valid, rollups) ==
    LET reduced(h) ==
            [ok |-> \A c \in children : h[c].ok,
             res |-> reduce_child_results(children,
                                          [c \in children |-> h[c].res])]
    IN reduced([c \in children |->
                  handle_child(c, sims, hardware_dict, samples_list,
                               samples_valid, rollups)])

Children(id, hardware_dict) ==
    {c \in DOMAIN hardware_dict : hardware_dict[c].parent_id = id}

\* the level loop: reversed(range(2, 6)), deepest level first
RECURSIVE RollupLevels(_, _, _, _, _, _)
RollupLevels(level, acc, sims, hardware_dict, samples_list, samples_valid) ==
    IF level < 2 THEN acc
    ELSE LET rollup_elems == {e \in DOMAIN hardware_dict :
                                /\ hardware_dict[e].level = level
                                /\ ~hardware_dict[e].is_component}
             stored(r) ==
                 [ok |-> acc.ok /\ \A e \in rollup_elems : r[e].ok,
                  map |-> [e \in DOMAIN acc.map \cup rollup_elems |->
                             IF e \in rollup_elems THEN r[e].res
                             ELSE acc.map[e]]]
         IN RollupLevels(level - 1,
               stored([e \in rollup_elems |->
                         RollupOf(Children(e, hardware_dict), sims,
                                  hardware_dict, samples_list, samples_valid,
                                  acc.map)]),
               sims, hardware_dict, samples_list, samples_valid)

\* the Project entry: the level-1 reduction over the top-level elements,
\* stored beside the rollups of the level loop
ProjectRollup(levels, sims, hardware_dict, samples_list, samples_valid, old) ==
    LET stored(l1) ==
            IF ~levels.ok \/ ~l1.ok THEN Raise(old)
            ELSE [raised |-> FALSE, publish |-> TRUE, simmed |-> {}, inputs |-> {},
                  deleted |-> {},
                  out |-> [e \in DOMAIN levels.map \cup {Project} |->
                             IF e = Project THEN l1.res ELSE levels.map[e]]]
    IN stored(RollupOf(Children(None, hardware_dict), sims, hardware_dict,
                       samples_list, samples_valid, levels.map))

\* variant: the aggregator without the no-op check
store_sims_rollups_always(sims, hardware_dict, samples_list, old) ==
    LET samples_valid == identify_valid_samples(samples_list, hardware_dict)
    IN ProjectRollup(RollupLevels(5, [ok |-> TRUE, map |-> EmptyMap], sims,
                                  hardware_dict, samples_list, samples_valid),
                     sims, hardware_dict, samples_list, samples_valid, old)

\* store_sims_rollups(sims, hardware_dict, samples_list)
store_sims_rollups(sims, hardware_dict, samples_list, old) ==
    IF ValidSamplesRaises(samples_list, hardware_dict) THEN Raise(old)
    ELSE IF sims.noop THEN PreventUpdate(old)
    ELSE
    LET samples_valid == identify_valid_samples(samples_list, hardware_dict)
    IN ProjectRollup(RollupLevels(5, [ok |-> TRUE, map |-> EmptyMap], sims,
                                  hardware_dict, samples_list, samples_valid),
                     sims, hardware_dict, samples_list, samples_valid, old)

---------------------------------------------------------------------------
(* The edit callbacks *)

Unconfigured(hw) ==
    [hw EXCEPT !.valid = FALSE, !.dim = Dim2D, !.area = Blank,
               !.volume = Blank, !.type = None, !.analogy = None,
               !.implied_id = None, !.spec = None]

NewRow(parent, level) ==
    [parent_id |-> parent, level |-> level, is_component |-> TRUE,
     valid |-> FALSE, dim |-> Dim2D, area |-> Blank, volume |-> Blank,
     type |-> None, analogy |-> None, implied_id |-> None, spec |-> None,
     notes |-> ""]

\* variant: an element of any level is offered as parent
ParentOptionsAnyLevel(hardware_dict, samples_list) ==
    {i \in DOMAIN hardware_dict :
        \A s \in DOMAIN samples_list : samples_list[s].Hardware_ID # i}

\* record.py hardware_options_parent
ParentOptions(hardware_dict, samples_list) ==
    {i \in DOMAIN hardware_dict :
        /\ hardware_dict[i].level <= 5
        /\ \A s \in DOMAIN samples_list : samples_list[s].Hardware_ID # i}

\* record.py hardware_record, for an id that is not in use
hardware_record(hardware_dict, hw_id, hw_parent_id) ==
    LET level == IF hw_parent_id = None THEN 2
                 ELSE hardware_dict[hw_parent_id].level + 1
        with == [i \in DOMAIN hardware_dict \cup {hw_id} |->
                    IF i = hw_id THEN NewRow(hw_parent_id, level)
                    ELSE hardware_dict[i]]
        parents == {with[i].parent_id : i \in DOMAIN with} \ {None}
        leaves == DOMAIN with \ parents
    IN [i \in DOMAIN with |->
          IF with[i].is_component /\ i \notin leaves
          THEN Unconfigured([with[i] EXCEPT !.is_component = FALSE])
          ELSE [with[i] EXCEPT !.is_component = (i \in leaves)]]

\* configure.py hardware_config_state_type_dim: the implied-link options
ImpliedOptions(hardware_dict, hw_dim) ==
    {i \in DOMAIN hardware_dict :
        /\ hardware_dict[i].valid
        /\ hardware_dict[i].type = Sampled
        /\ hardware_dict[i].dim = hw_dim}

\* configure.py hardware_config_apply
hardware_config_apply(hardware_dict, hw_id, hw_dim, hw_area_vol, hw_type, hw_analogy, hw_implied_id, hw_spec, hw_notes) ==
    LET base == (hw_area_vol # Blank) /\ (hw_type # None)
        valid == IF base /\ hardware_dict[hw_id].is_component
                 THEN IF hw_type = Sampled THEN hw_analogy # None
                      ELSE IF hw_type = Implied THEN hw_implied_id # None
                      ELSE IF hw_type = SpecType THEN hw_spec # None
                      ELSE base
                 ELSE base
    IN [hardware_dict EXCEPT ![hw_id] =
          [@ EXCEPT !.dim = hw_dim,
                    !.area = IF hw_dim = Dim2D THEN hw_area_vol ELSE Blank,
                    !.volume = IF hw_dim = Dim3D THEN hw_area_vol ELSE Blank,
                    !.type = hw_type,
                    !.analogy = hw_analogy,
                    !.implied_id = hw_implied_id,
                    !.spec = hw_spec,
                    !.notes = hw_notes,
                    !.valid = valid]]

\* variant: the parent that loses its last child stays a rollup
hardware_delete_confirm_keeps_rollup(hardware_dict, hw_id) ==
    LET hw_del == hardware_dict[hw_id]
        rest == Restrict(hardware_dict, DOMAIN hardware_dict \ {hw_id})
        lone == /\ hw_del.parent_id # None
                /\ \A i \in DOMAIN rest : rest[i].parent_id # hw_del.parent_id
        coerced == [i \in DOMAIN rest |->
                      rest[i]]
    IN [i \in DOMAIN coerced |->
          IF coerced[i].implied_id = hw_id
          THEN [coerced[i] EXCEPT !.valid = FALSE, !.implied_id = None]
          ELSE coerced[i]]

\* variant: the elements implied from the deleted one keep their link
hardware_delete_confirm_keeps_links(hardware_dict, hw_id) ==
    LET hw_del == hardware_dict[hw_id]
        rest == Restrict(hardware_dict, DOMAIN hardware_dict \ {hw_id})
        lone == /\ hw_del.parent_id # None
                /\ \A i \in DOMAIN rest : rest[i].parent_id # hw_del.parent_id
        coerced == [i \in DOMAIN rest |->
                      IF lone /\ i = hw_del.parent_id
                      THEN Unconfigured([rest[i] EXCEPT !.is_component = TRUE])
                      ELSE rest[i]]
    IN coerced

\* delete.py hardware_delete_confirm: the new hardware-json
hardware_delete_confirm(hardware_dict, hw_id) ==
    LET hw_del == hardware_dict[hw_id]
        rest == Restrict(hardware_dict, DOMAIN hardware_dict \ {hw_id})
        lone == /\ hw_del.parent_id # None
                /\ \A i \in DOMAIN rest : rest[i].parent_id # hw_del.parent_id
        coerced == [i \in DOMAIN rest |->
                      IF lone /\ i = hw_del.parent_id
                      THEN Unconfigured([rest[i] EXCEPT !.is_component = TRUE])
                      ELSE rest[i]]
    IN [i \in DOMAIN coerced |->
          IF coerced[i].implied_id = hw_id
          THEN [coerced[i] EXCEPT !.valid = FALSE, !.implied_id = None]
          ELSE coerced[i]]

\* delete.py hardware_delete_confirm: the new datatable-samples
delete_samples_of(samples_list, hw_id) ==
    Restrict(samples_list,
             {s \in DOMAIN samples_list : samples_list[s].Hardware_ID # hw_id})

\* record.py sample_options_hardware
SampleHardwareOptions(hardware_dict) ==
    {i \in DOMAIN hardware_dict :
        hardware_dict[i].valid /\ hardware_dict[i].type = Sampled}

\* record.py sample_record, for an id that is not in use
sample_record(hardware_dict, samples_list, samp_id, samp_hw_id, samp_accountable, samp_area_vol, samp_notes) ==
    [s \in DOMAIN samples_list \cup {samp_id} |->
        IF s = samp_id
        THEN [Hardware_ID |-> samp_hw_id,
              PP_Accountable |-> samp_accountable,
              Sampled_Area |-> IF hardware_dict[samp_hw_id].dim = Dim2D
                               THEN samp_area_vol ELSE Blank,
              Sampled_Volume |-> IF hardware_dict[samp_hw_id].dim = Dim3D
                                 THEN samp_area_vol ELSE Blank,
              Sampling_Notes |-> samp_notes,
              Eff_Tag |-> "Swab;Puritan Cotton;NASA Standard",
              Pour_Fraction |-> 80, CFU |-> 0]
        ELSE samples_list[s]]

\* configure.py sample_config_apply
sample_config_apply(hardware_dict, samples_list, samp_id, samp_accountable, samp_area_vol, samp_notes) ==
    LET hw == hardware_dict[samples_list[samp_id].Hardware_ID]
    IN [samples_list EXCEPT ![samp_id] =
          [@ EXCEPT !.PP_Accountable = samp_accountable,
                    !.Sampled_Area = IF hw.dim = Dim2D THEN samp_area_vol ELSE @,
                    !.Sampled_Volume = IF hw.dim = Dim2D THEN @ ELSE samp_area_vol,
                    !.Sampling_Notes = samp_notes]]

---------------------------------------------------------------------------
(* import_export.py: the PPEL import *)

Idx(names, x) == CHOOSE i \in 1..Len(names) : names[i] = x

ImportKinds == {"Rollup", "Sampled", "SampledNoAnalogy", "Spec", "Implied"}

\* the rows of an uploaded PPEL over the ids S, as ppel_to_biostar reads them
ImportRowChoices(S) ==
    [parent_id : {None} \cup S, kind : ImportKinds \ {"Implied"},
     implied_id : {None}]
    \cup [parent_id : {None} \cup S, kind : {"Implied"},
          implied_id : {None} \cup S]

RECURSIVE implied_level(_, _)
implied_level(rows, i) ==
    IF rows[i].parent_id = None THEN 2
    ELSE implied_level(rows, rows[i].parent_id) + 1

ppel_to_biostar(rows, i) ==
    LET row == rows[i]
        comp == row.kind # "Rollup"
    IN [parent_id |-> row.parent_id,
        level |-> implied_level(rows, i),
        is_component |-> comp,
        valid |-> FALSE,
        dim |-> Dim2D,
        area |-> IF comp THEN 1 ELSE Blank,
        volume |-> Blank,
        type |-> CASE row.kind = "Rollup" -> None
                   [] row.kind \in {"Sampled", "SampledNoAnalogy"} -> Sampled
                   [] row.kind = "Spec" -> SpecType
                   [] OTHER -> Implied,
        analogy |-> IF row.kind = "Sampled" THEN Analog ELSE None,
        implied_id |-> row.implied_id,
        spec |-> IF row.kind = "Spec" THEN SpecClass ELSE None,
        notes |-> ""]

\* the uploads validate_hardware_joint accepts (parents exist and are the
\* rollups, levels follow the parents), with parents listed before children
AcceptedRows(S) ==
    {rows \in [S -> ImportRowChoices(S)] :
        \A i \in S :
            /\ rows[i].parent_id # None =>
                   Idx(HwNames, rows[i].parent_id) < Idx(HwNames, i)
            /\ (rows[i].kind = "Rollup") <=>
                   (\E j \in S : rows[j].parent_id = i)}

\* validate_hardware_joint, the validity loop: one row judged against the
\* flags the list holds at that moment
ValidateOne(hardware_list, i) ==
    LET hw == hardware_list[i]
        base == /\ (IF hw.dim = Dim2D THEN hw.area ELSE hw.volume) # Blank
                /\ hw.type # None
        comp_valid ==
            /\ hw.is_component
            /\ IF base /\ hw.type = Sampled THEN hw.analogy = Analog
               ELSE IF hw.type = Implied
               THEN /\ hw.implied_id \in DOMAIN hardware_list
                    /\ hardware_list[hw.implied_id].valid
               ELSE IF hw.type = SpecType
               THEN hw.spec \in SPEC_ISO_CLASSES(hw.dim)
               ELSE base
    IN [hardware_list EXCEPT ![i].valid = comp_valid]

RECURSIVE ValidateSeq(_, _)
ValidateSeq(hardware_list, order) ==
    IF order = <<>> THEN hardware_list
    ELSE ValidateSeq(ValidateOne(hardware_list, Head(order)), Tail(order))

\* validate_hardware_joint: rows sorted by type (stable), then judged in turn
validate_hardware_joint(hardware_list) ==
    LET ids == DOMAIN hardware_list
        of(ty) == DictOrder({i \in ids : hardware_list[i].type = ty})
    IN ValidateSeq(hardware_list,
                   of(None) \o of(Sampled) \o of(SpecType) \o of(Implied))

\* validate_sample: a row is kept iff it names a valid Sampled component
validate_sample(sample, hardware_dict) ==
    /\ sample.Hardware_ID \in DOMAIN hardware_dict
    /\ hardware_dict[sample.Hardware_ID].is_component
    /\ hardware_dict[sample.Hardware_ID].type = Sampled
    /\ hardware_dict[sample.Hardware_ID].valid

---------------------------------------------------------------------------
(* Inputs of the events *)

\* largest total area or volume the user types for a component
MaxExtent == 1
\* largest sampled area or volume the user types (0 is the invalid entry)
MaxSampleExtent == 1

HwDims == {Dim2D, Dim3D}
Extents == 1..MaxExtent
SampleExtents == 0..MaxSampleExtent
NotesChoices == {"", "n"}
Accountables == {"Yes", "No"}

\* the first name of the list that is not in use
FirstFree(names, used) ==
    names[CHOOSE i \in 1..Len(names) :
             /\ names[i] \notin used
             /\ \A j \in 1..(i - 1) : names[j] \in used]

\* the outcomes of the draws of one event, one per component it may simulate
\* (only a valid component is ever simulated)
DrawsFor(hardware_dict) ==
    LET live == {i \in DOMAIN hardware_dict : hardware_dict[i].valid}
    IN {[i \in DOMAIN hardware_dict |-> IF i \in live THEN f[i] ELSE 1] :
           f \in [live -> Draws]}

\* the (analogy, implied_id, spec) offered for a type on the configure form:
\* the other two inputs are hidden and hold None; the analogy select cannot
\* be cleared, so it is blank only while it holds the value the form was
\* opened with
TypeInputs(hardware_dict, hw_id, hw_dim, hw_type) ==
    LET hw == hardware_dict[hw_id]
        kept(attr) == IF hw.dim = hw_dim THEN {hw[attr]} ELSE {}
    IN IF hw_type = Sampled
       THEN {<<a, None, None>> :
                a \in {Generic, Analog}
                       \cup (IF hw.dim = hw_dim THEN {hw.analogy} ELSE {None})}
       ELSE IF hw_type = Implied
       THEN {<<None, i, None>> :
                i \in {None} \cup ImpliedOptions(hardware_dict, hw_dim)
                       \cup kept("implied_id")}
       ELSE IF hw_type = SpecType
       THEN {<<None, None, s>> :
                s \in {None, IF hw_dim = Dim2D THEN SpecClass
                             ELSE SpecClass3D}}
       ELSE {<<None, None, None>>}

---------------------------------------------------------------------------
(* One event: the edited stores, then the callback chain *)

\* the diff is an edit of metadata columns and of nothing else
MetadataOnly(update, columns) ==
    /\ ~update.root /\ update.added = {} /\ update.removed = {}
    /\ update.changed # {}
    /\ \A c \in update.changed : c[2] \in columns

\* hardware_broadcast / samples_broadcast -> store_sims_components ->
\* hardware_increment_* / samples_increment -> store_sims_rollups
Process(op, hardware_dict, samples_list, hw_triggered, w, next_pc) ==
    LET hardware_diff == hardware_broadcast(hardware_prev, hardware_dict)
        samples_diff == samples_broadcast(samples_prev, samples_list)
    IN \E res \in {store_sims_components(hw_triggered, hardware_diff,
                       samples_diff, hardware_dict, samples_list,
                       hardware_prev, samples_prev, current_sims, w)} :
       \E agg \in {IF res.publish
                   THEN store_sims_rollups(res.out, hardware_dict,
                                           samples_list, sims_rollups)
                   ELSE PreventUpdate(sims_rollups)} :
       /\ hardware' = hardware_dict
       /\ samples' = samples_list
       /\ hardware_prev' = hardware_dict
       /\ samples_prev' = samples_list
       /\ current_sims' = res.out
       /\ sims_rollups' = agg.out
       /\ pc' = next_pc
       /\ events' = IF op = "load" THEN events ELSE events + 1
       /\ last' = [op |-> op,
                   hw_triggered |-> hw_triggered,
                   root |-> hw_triggered /\ hardware_diff.root,
                   metaonly |-> MetadataOnly(IF hw_triggered THEN hardware_diff
                                             ELSE samples_diff,
                                             IF hw_triggered
                                             THEN HARDWARE_METADATA_COLUMNS
                                             ELSE SAMPLE_TABLE_METADATA_COLUMNS),
                   raised |-> res.raised, publish |-> res.publish,
                   simmed |-> res.simmed, inputs |-> res.inputs, deleted |-> res.deleted,
                   agg |-> IF ~res.publish THEN "none"
                           ELSE IF agg.raised THEN "raised"
                           ELSE IF agg.publish THEN "ran" ELSE "skipped"]

\* the first round of callbacks after the page has loaded
PageLoad ==
    /\ pc = "load"
    /\ \E w \in DrawsFor(hardware) :
          Process("load", hardware, samples, TRUE, w, "idle")

\* record.py hardware_record (button-record-hardware)
HardwareRecord ==
    /\ pc = "idle"
    /\ events < MaxEvents
    /\ Cardinality(DOMAIN hardware) < MaxHw
    /\ \E hw_parent_id \in {None} \cup ParentOptions(hardware, samples) :
          LET hw_id == FirstFree(HwNames, DOMAIN hardware)
              hd == hardware_record(hardware, hw_id, hw_parent_id)
          IN \E w \in DrawsFor(hd) :
                Process("hardware_record", hd, samples, TRUE, w, "idle")

\* configure.py hardware_config_apply on a component
HardwareConfigApply ==
    /\ pc = "idle"
    /\ events < MaxEvents
    /\ \E hw_id \in DOMAIN hardware :
          /\ hardware[hw_id].is_component
          /\ LET locked == \E s \in DOMAIN samples :
                               samples[s].Hardware_ID = hw_id
             IN \E hw_dim \in IF locked THEN {hardware[hw_id].dim} ELSE HwDims,
                   hw_type \in IF locked THEN {hardware[hw_id].type}
                               ELSE {Sampled, Implied, SpecType},
                   hw_area_vol \in {Blank} \cup Extents,
                   hw_notes \in NotesChoices :
                   \E ins \in TypeInputs(hardware, hw_id, hw_dim, hw_type) :
                      LET hd == hardware_config_apply(hardware, hw_id, hw_dim,
                                    hw_area_vol, hw_type, ins[1], ins[2],
                                    ins[3], hw_notes)
                      IN \E w \in DrawsFor(hd) :
                            Process("hardware_config_apply", hd, samples,
                                    TRUE, w, "idle")

\* configure.py hardware_config_apply on a rollup: the component inputs are
\* hidden and keep the values hardware_config_state_id gave them
RollupConfigApply ==
    /\ pc = "idle"
    /\ events < MaxEvents
    /\ \E hw_id \in DOMAIN hardware, hw_notes \in NotesChoices :
          /\ ~hardware[hw_id].is_component
          /\ LET hw == hardware[hw_id]
                 hd == hardware_config_apply(hardware, hw_id, hw.dim,
                           IF hw.dim = Dim2D THEN hw.area ELSE hw.volume,
                           hw.type, None, None, None, hw_notes)
             IN \E w \in DrawsFor(hd) :
                   Process("hardware_config_apply", hd, samples, TRUE, w,
                           "idle")

\* delete.py hardware_delete_confirm (enabled for components only)
HardwareDeleteConfirm ==
    /\ pc = "idle"
    /\ events < MaxEvents
    /\ \E hw_id \in DOMAIN hardware :
          /\ hardware[hw_id].is_component
          /\ LET hd == hardware_delete_confirm(hardware, hw_id)
             IN \E w \in DrawsFor(hd) :
                   Process("hardware_delete_confirm", hd,
                           delete_samples_of(samples, hw_id), TRUE, w, "idle")

\* record.py sample_record (button-record-sample)
SampleRecord ==
    /\ pc = "idle"
    /\ events < MaxEvents
    /\ Cardinality(DOMAIN samples) < MaxSamp
    /\ \E samp_hw_id \in SampleHardwareOptions(hardware),
          samp_accountable \in Accountables,
          samp_area_vol \in SampleExtents, samp_notes \in NotesChoices,
          w \in DrawsFor(hardware) :
          LET samp_id == FirstFree(SampNames, DOMAIN samples)
          IN Process("sample_record", hardware,
                     sample_record(hardware, samples, samp_id, samp_hw_id,
                         samp_accountable, samp_area_vol, samp_notes),
                     FALSE, w, "idle")

\* configure.py sample_config_apply, and an edited cell of datatable-samples
SampleConfigApply ==
    /\ pc = "idle"
    /\ events < MaxEvents
    /\ \E samp_id \in DOMAIN samples, samp_accountable \in Accountables,
          samp_area_vol \in SampleExtents, samp_notes \in NotesChoices,
          w \in DrawsFor(hardware) :
          Process("sample_config_apply", hardware,
                  sample_config_apply(hardware, samples, samp_id,
                      samp_accountable, samp_area_vol, samp_notes),
                  FALSE, w, "idle")

\* a deleted row of datatable-samples (row_deletable)
SampleRowDelete ==
    /\ pc = "idle"
    /\ events < MaxEvents
    /\ \E samp_id \in DOMAIN samples, w \in DrawsFor(hardware) :
          Process("sample_row_delete", hardware,
                  Restrict(samples, DOMAIN samples \ {samp_id}),
                  FALSE, w, "idle")

\* the hardware-json and datatable-samples an accepted upload is parsed into
Uploads ==
    UNION {
      LET S == {HwNames[i] : i \in 1..n}
      IN UNION {
           LET hd == validate_hardware_joint(
                         [i \in S |-> ppel_to_biostar(rows, i)])
               row(h, a, x) ==
                   [Hardware_ID |-> h, PP_Accountable |-> a,
                    Sampled_Area |-> x, Sampled_Volume |-> Blank,
                    Sampling_Notes |-> "",
                    Eff_Tag |-> "Swab;Puritan Cotton;NASA Standard",
                    Pour_Fraction |-> 80, CFU |-> 0]
               rows_ok == {r \in {row(h, a, x) : h \in S, a \in Accountables,
                                                 x \in SampleExtents} :
                             validate_sample(r, hd)}
           IN {[hardware |-> hd, samples |-> EmptyMap]}
              \cup {[hardware |-> hd,
                     samples |-> [s \in {SampNames[1]} |-> r]] : r \in rows_ok}
           : rows \in AcceptedRows(S)}
      : n \in 1..MaxUploadHw}

\* import_export.py import_ppel_stage_1 on an upload that parses and
\* validates: the stores are wiped and the upload is queued in ppel-storage
ImportPpelStage1 ==
    /\ pc = "idle"
    /\ events < MaxEvents
    /\ Process("import_ppel_stage_1", EmptyMap, EmptyMap, TRUE, EmptyMap,
               "import")

\* import_export.py import_ppel_stage_2: the queued upload is loaded; the
\* content of the upload is drawn here
ImportPpelStage2 ==
    /\ pc = "import"
    /\ events < MaxEvents
    /\ \E upload \in Uploads :
          \E w \in DrawsFor(upload.hardware) :
             Process("import_ppel_stage_2", upload.hardware,
                     upload.samples, TRUE, w, "idle")

---------------------------------------------------------------------------
(* The specification *)

\* layout.py: the stores of a fresh page
Init ==
    /\ hardware = [i \in {HwNames[1]} |->
                     [parent_id |-> None, level |-> 2, is_component |-> TRUE,
                      valid |-> TRUE, dim |-> Dim2D, area |-> 1,
                      volume |-> Blank, type |-> Sampled, analogy |-> Generic,
                      implied_id |-> None, spec |-> None, notes |-> ""]]
    /\ samples = [s \in {SampNames[1]} |->
                    [Hardware_ID |-> HwNames[1], PP_Accountable |-> "Yes",
                     Sampled_Area |-> 1, Sampled_Volume |-> Blank,
                     Sampling_Notes |-> "",
                     Eff_Tag |-> "Swab;Puritan Cotton;NASA Standard",
                     Pour_Fraction |-> 80, CFU |-> 0]]
    /\ hardware_prev = EmptyMap
    /\ samples_prev = EmptyMap
    /\ current_sims = [noop |-> TRUE, sims |-> EmptyMap]
    /\ sims_rollups = EmptyMap
    /\ pc = "load"
    /\ events = 0
    /\ last = [op |-> "init", hw_triggered |-> FALSE, root |-> FALSE,
               metaonly |-> FALSE,
               raised |-> FALSE, publish |-> FALSE, simmed |-> {}, inputs |-> {},
               deleted |-> {}, agg |-> "none"]

Next ==
    \/ PageLoad
    \/ HardwareRecord
    \/ HardwareConfigApply
    \/ RollupConfigApply
    \/ HardwareDeleteConfirm
    \/ SampleRecord
    \/ SampleConfigApply
    \/ SampleRowDelete
    \/ ImportPpelStage1
    \/ ImportPpelStage2

Spec == Init /\ [][Next]_vars

---------------------------------------------------------------------------
(* Properties *)

\* parsing.py find_eligible_hardware_ids, the test of one element: valid, and
\* with the generic prior at least one usable accountable sample
EligibleComponent(i, hardware_dict, samples_list) ==
    LET samples_valid == identify_valid_samples(samples_list, hardware_dict)
    IN ~(\/ ~hardware_dict[i].valid
         \/ /\ hardware_dict[i].analogy = Generic
            /\ ~\E s \in DOMAIN samples_list :
                   /\ samples_list[s].Hardware_ID = i
                   /\ samples_list[s].PP_Accountable = "Yes"
                   /\ s \in samples_valid)

C2_EligibleHaveRecord ==
    last.op # "init" =>
        \A i \in DOMAIN hardware :
            (hardware[i].is_component /\ EligibleComponent(i, hardware, samples))
                => i \in DOMAIN current_sims.sims

\* C3: after every processed event the store holds no record whose owner is
\* deleted, invalid or ineligible.
C3_NoRecordWithoutEligibleOwner ==
    last.op # "init" =>
        \A i \in DOMAIN current_sims.sims :
            /\ i \in DOMAIN hardware
            /\ EligibleComponent(i, hardware, samples)

\* C4: after every processed event every implied record's link has a record
\* in the store and the implied record's density draws equal that record's.
C4_ImpliedLinkCurrent ==
    last.op # "init" =>
        \A b \in DOMAIN current_sims.sims :
            current_sims.sims[b].mode = "implied" =>
                /\ current_sims.sims[b].link \in DOMAIN current_sims.sims
                /\ current_sims.sims[b].lambda =
                       current_sims.sims[current_sims.sims[b].link].lambda

\* C5: after any sequence of events the store has the ids, and per id the
\* mode and link, of the store the whole-tree replace path computes from
\* scratch on the current hierarchy and samples.
C5_SameAsFromScratch ==
    last.op # "init" =>
        LET rows_valid ==
                Restrict(samples, identify_valid_samples(samples, hardware))
            scratch == BatchImport(hardware, rows_valid,
                                   [i \in DOMAIN hardware |-> 1])
        IN /\ scratch.ok
           /\ DOMAIN current_sims.sims = DOMAIN scratch.sims
           /\ \A i \in DOMAIN scratch.sims :
                 /\ current_sims.sims[i].mode = scratch.sims[i].mode
                 /\ current_sims.sims[i].link = scratch.sims[i].link

\* C6: in every sample event in which the usable accountable samples of a
\* Sampled component change (one is gained, lost, or has its inputs edited),
\* the component is re-simulated, or its record is gone if the component is
\* no longer eligible.
C6_UsableChangeResimulates ==
    [][(~last'.hw_triggered) =>
          \A h \in DOMAIN hardware' :
              LET usable(sl, hd) ==
                      {<<s, sl[s].Sampled_Area, sl[s].Sampled_Volume>> :
                          s \in {x \in identify_valid_samples(sl, hd) :
                                    /\ sl[x].Hardware_ID = h
                                    /\ sl[x].PP_Accountable = "Yes"}}
              IN (/\ hardware'[h].type = Sampled
                  /\ usable(samples, hardware) # usable(samples', hardware'))
                 => \/ h \in last'.simmed
                    \/ /\ ~EligibleComponent(h, hardware', samples')
                       /\ h \notin DOMAIN current_sims'.sims]_vars

\* C7: an edit event whose changed fields are all metadata fields leaves every
\* record of the store and every rollup aggregate unchanged.
C7_MetadataLeavesResults ==
    [][last'.metaonly =>
          /\ current_sims'.sims = current_sims.sims
          /\ sims_rollups' = sims_rollups]_vars

C7_Witness ==
    /\ last.metaonly /\ last.hw_triggered
    /\ DOMAIN current_sims.sims # {}
    /\ Project \in DOMAIN sims_rollups

\* C8 as stated: after a metadata-only edit event the no-op flag is true.
C8_FlagTrueAfterMetadata ==
    last.metaonly => current_sims.noop

\* C8, as the controller does it: a metadata-only edit event publishes
\* nothing, so the no-op flag keeps the value the preceding event left.
C8_MetadataPublishesNothing ==
    [][last'.metaonly =>
          /\ ~last'.publish
          /\ last'.agg = "none"
          /\ current_sims'.noop = current_sims.noop]_vars

C8_Witness ==
    /\ last.metaonly /\ ~last.hw_triggered
    /\ ~last.publish
    /\ ~current_sims.noop

\* C9: whenever the store is published with the no-op flag true the
\* aggregator recomputes nothing and every rollup aggregate, the project
\* root's included, is unchanged.
C9_NoopSkipsAggregator ==
    [][(last'.publish /\ current_sims'.noop) =>
          /\ last'.agg = "skipped"
          /\ sims_rollups' = sims_rollups]_vars

C9_Witness ==
    /\ last.publish /\ current_sims.noop
    /\ last.agg = "skipped"
    /\ Project \in DOMAIN sims_rollups

\* C10: on whole-tree replace every implied component is simulated when the
\* record of its linked component is already in the store: the replace does
\* not fail on a missing link and every implied record carries the density
\* draws of its link's record.
C10_BatchLinkFirst ==
    (last.op = "import_ppel_stage_2" /\ last.root) =>
        /\ ~last.raised
        /\ \A b \in DOMAIN current_sims.sims :
              current_sims.sims[b].mode = "implied" =>
                  /\ b \in last.simmed
                  /\ current_sims.sims[b].link \in last.simmed
                  /\ current_sims.sims[b].lambda =
                         current_sims.sims[current_sims.sims[b].link].lambda

C10_Witness ==
    /\ last.op = "import_ppel_stage_2" /\ last.root /\ last.publish
    /\ \E b \in last.simmed :
          /\ current_sims.sims[b].mode = "implied"
          /\ current_sims.sims[current_sims.sims[b].link].mode # "implied"

\* C11: deleting a Sampled component A that is the implied link of a
\* component B does not raise, marks B invalid and removes B's simulation
\* record from the store in that event.
C11_DeleteLinkRemovesImplied ==
    [][last'.op = "hardware_delete_confirm" =>
          \A a \in DOMAIN hardware \ DOMAIN hardware' :
              hardware[a].type = Sampled =>
                  \A b \in DOMAIN hardware \cap DOMAIN hardware' :
                      (hardware[b].type = Implied /\ hardware[b].implied_id = a)
                          => /\ ~last'.raised
                             /\ ~hardware'[b].valid
                             /\ b \notin DOMAIN current_sims'.sims]_vars

---------------------------------------------------------------------------
(* One call of store_sims_components on any pair of previous and current   *)
(* stores, the pairs no single edit produces included                      *)

\* largest number of elements of a store handed to the single call
MaxCallHw == 3

\* the element rows of the stores handed to the call
CallRows ==
    {NewRow(None, 2),
     [NewRow(None, 2) EXCEPT !.valid = TRUE, !.area = 1, !.type = Sampled,
                             !.analogy = Analog]}

CallDicts ==
    UNION {[S -> CallRows] : S \in SUBSET {HwNames[i] : i \in 1..MaxCallHw}}

CallSamples ==
    {EmptyMap}
    \cup {[s \in {SampNames[1]} |->
             [Hardware_ID |-> HwNames[1], PP_Accountable |-> "Yes",
              Sampled_Area |-> x, Sampled_Volume |-> Blank,
              Sampling_Notes |-> "",
              Eff_Tag |-> "Swab;Puritan Cotton;NASA Standard",
              Pour_Fraction |-> 80, CFU |-> 0]] : x \in SampleExtents}

\* the store holds the records of the previous hardware and samples
CallInit ==
    /\ hardware_prev \in CallDicts
    /\ hardware \in CallDicts
    /\ samples_prev \in CallSamples
    /\ samples \in CallSamples
    /\ current_sims =
          [noop |-> FALSE,
           sims |-> IF ValidSamplesRaises(samples_prev, hardware_prev)
                    THEN EmptyMap
                    ELSE BatchImport(hardware_prev,
                            Restrict(samples_prev,
                                identify_valid_samples(samples_prev,
                                                       hardware_prev)),
                            [i \in DOMAIN hardware_prev |-> 1]).sims]
    /\ sims_rollups = EmptyMap
    /\ pc = "call"
    /\ events = 0
    /\ \E hw_triggered \in BOOLEAN :
          last = [op |-> "call", hw_triggered |-> hw_triggered,
                  root |-> FALSE, metaonly |-> FALSE, raised |-> FALSE,
                  publish |-> FALSE, simmed |-> {}, inputs |-> {}, deleted |-> {},
                  agg |-> "none"]

\* the diff handed to the call
CallUpdate ==
    IF last.hw_triggered THEN hardware_broadcast(hardware_prev, hardware)
    ELSE samples_broadcast(samples_prev, samples)

\* store_sims_components alone: the trackers and the aggregator do not run
CallStoreSimsComponents ==
    /\ pc = "call"
    /\ \E w \in DrawsFor(hardware) :
       \E res \in {store_sims_components(last.hw_triggered,
                       hardware_broadcast(hardware_prev, hardware),
                       samples_broadcast(samples_prev, samples),
                       hardware, samples, hardware_prev, samples_prev,
                       current_sims, w)} :
          /\ current_sims' = res.out
          /\ pc' = "done"
          /\ last' = [last EXCEPT !.op = "store_sims_components",
                                  !.root = last.hw_triggered /\ CallUpdate.root,
                                  !.raised = res.raised,
                                  !.publish = res.publish,
                                  !.simmed = res.simmed,
                                  !.inputs = res.inputs,
                                  !.deleted = res.deleted]
          /\ UNCHANGED <<hardware, samples, hardware_prev, samples_prev,
                         sims_rollups, events>>

CallNext == CallStoreSimsComponents

CallSpec == CallInit /\ [][CallNext]_vars

\* a non-empty diff that is none of: whole-tree replace, single added
\* element, removed elements, changed fields (hardware); added or removed
\* rows, changed fields (samples)
Unclassified(hw_triggered, update) ==
    /\ ~IsEmptyDiff(update)
    /\ IF hw_triggered
       THEN /\ ~update.root
            /\ Cardinality(update.added) # 1
            /\ update.removed = {}
            /\ update.changed = {}
       ELSE update.added = {} /\ update.removed = {} /\ update.changed = {}

\* C12: a call of the controller on a non-empty diff of none of the
\* classified shapes raises and publishes no store; it never returns
\* silently.
C12_UnclassifiedRaises ==
    [][(pc = "call" /\ pc' = "done" /\ Unclassified(last.hw_triggered, CallUpdate))
          => /\ last'.raised
             /\ ~last'.publish
             /\ current_sims' = current_sims]_vars

C12_Witness ==
    /\ pc = "done"
    /\ last.hw_triggered
    /\ Unclassified(TRUE, hardware_broadcast(hardware_prev, hardware))
    /\ ~ValidSamplesRaises(samples, hardware)
    /\ last.raised

---------------------------------------------------------------------------
(* One call of store_sims_rollups on any hierarchy, samples and store      *)

\* largest number of elements of the hierarchy handed to the single call
MaxRollupHw == 3
\* largest total area of a component of that hierarchy
MaxRollupExtent == 2
\* largest number of elements of a hierarchy that is one chain of rollups
MaxChainHw == 6

RECURSIVE LevelOf(_, _)
LevelOf(p, i) == IF p[i] = None THEN 2 ELSE LevelOf(p, p[i]) + 1

\* the parents of the elements S: a parent is listed before its children
RollupParents(S) ==
    {p \in [S -> {None} \cup S] :
        \A i \in S : p[i] # None => Idx(HwNames, p[i]) < Idx(HwNames, i)}

\* the parents of the chain: every element is the child of the one before
\* (validate_hardware_joint accepts a chain of any length)
ChainParents(S) ==
    {[i \in S |-> IF Idx(HwNames, i) = 1 THEN None
                  ELSE HwNames[Idx(HwNames, i) - 1]]}

\* what hardware_config_apply leaves in a component: <<valid, dim, area,
\* volume, type, analogy, implied_id, spec>>
ComponentConfigs(S) ==
    {<<FALSE, Dim2D, Blank, Blank, None, None, None, None>>,
     <<TRUE, Dim2D, 1, Blank, Sampled, Generic, None, None>>,
     <<TRUE, Dim3D, Blank, 1, Sampled, Analog, None, None>>}
    \cup {<<TRUE, Dim2D, x, Blank, Sampled, Analog, None, None>> :
             x \in 1..MaxRollupExtent}
    \cup {<<TRUE, Dim2D, 1, Blank, SpecType, None, None, SpecClass>>}
    \cup {<<TRUE, Dim2D, 1, Blank, Implied, None, a, None>> : a \in S}

\* the hierarchies over S with parents p: rollups are the elements with
\* children, an implied component is linked to a valid Sampled component
TreesOver(S, p) ==
    LET leaves == {i \in S : \A j \in S : p[j] # i}
        tree(c) ==
            [i \in S |->
               IF i \in leaves
               THEN [parent_id |-> p[i], level |-> LevelOf(p, i),
                     is_component |-> TRUE, valid |-> c[i][1],
                     dim |-> c[i][2], area |-> c[i][3],
                     volume |-> c[i][4], type |-> c[i][5],
                     analogy |-> c[i][6], implied_id |-> c[i][7],
                     spec |-> c[i][8], notes |-> ""]
               ELSE [NewRow(p[i], LevelOf(p, i))
                        EXCEPT !.is_component = FALSE]]
    IN {tree(c) : c \in
          {c \in [leaves -> ComponentConfigs(leaves)] :
              \A i \in leaves :
                  c[i][5] = Implied =>
                      c[c[i][7]][1] /\ c[c[i][7]][5] = Sampled}}

\* every hierarchy of at most MaxRollupHw elements, and the chains of more
RollupTrees ==
    UNION {UNION {TreesOver({HwNames[i] : i \in 1..n}, p) :
                     p \in RollupParents({HwNames[i] : i \in 1..n})} :
              n \in 1..MaxRollupHw}
    \cup UNION {UNION {TreesOver({HwNames[i] : i \in 1..n}, p) :
                          p \in ChainParents({HwNames[i] : i \in 1..n})} :
                   n \in (MaxRollupHw + 1)..MaxChainHw}

\* the rows of one Sampled component, as sample_record stores them
RollupSampleRows(hardware_dict, inputs) ==
    {[Hardware_ID |-> h, PP_Accountable |-> r[1],
      Sampled_Area |-> IF hardware_dict[h].dim = Dim2D THEN r[2] ELSE Blank,
      Sampled_Volume |-> IF hardware_dict[h].dim = Dim3D THEN r[2] ELSE Blank,
      Sampling_Notes |-> "",
      Eff_Tag |-> "Swab;Puritan Cotton;NASA Standard",
      Pour_Fraction |-> 80, CFU |-> 0] :
        h \in SampleHardwareOptions(hardware_dict), r \in inputs}

RollupSamples(hardware_dict) ==
    {EmptyMap}
    \cup {[s \in {SampNames[1]} |-> r] :
             r \in RollupSampleRows(hardware_dict,
                      {<<"Yes", 1>>, <<"Yes", 0>>, <<"No", 1>>})}
    \cup {[s \in {SampNames[1], SampNames[2]} |->
             IF s = SampNames[1] THEN r1 ELSE r2] :
             r1 \in RollupSampleRows(hardware_dict, {<<"Yes", 1>>}),
             r2 \in RollupSampleRows(hardware_dict, {<<"Yes", 1>>})}

\* the store of the hierarchy, as the whole-tree replace computes it
ScratchStore(hardware_dict, samples_list, w) ==
    BatchImport(hardware_dict,
                Restrict(samples_list,
                         identify_valid_samples(samples_list, hardware_dict)),
                w)

\* the published store holds the records of the hierarchy; it may still hold
\* a record of a component that is not eligible
RollupInit ==
    /\ hardware \in RollupTrees
    /\ samples \in RollupSamples(hardware)
    /\ hardware_prev = hardware
    /\ samples_prev = samples
    /\ \E w \in DrawsFor(hardware), stale \in BOOLEAN :
          LET scratch == ScratchStore(hardware, samples, w)
          IN /\ scratch.ok
             /\ current_sims =
                   [noop |-> FALSE,
                    sims |-> [i \in DOMAIN scratch.sims
                                    \cup (IF stale
                                          THEN {j \in DOMAIN hardware :
                                                  hardware[j].is_component}
                                          ELSE {}) |->
                                IF i \in DOMAIN scratch.sims
                                THEN scratch.sims[i]
                                ELSE [mode |-> "prior", link |-> Analog,
                                      lambda |-> Vector(1),
                                      cfu |-> Vector(1)]]]
    /\ sims_rollups = EmptyMap
    /\ pc = "call"
    /\ events = 0
    /\ last = [op |-> "call", hw_triggered |-> FALSE, root |-> FALSE,
               metaonly |-> FALSE, raised |-> FALSE, publish |-> TRUE,
               simmed |-> {}, inputs |-> {}, deleted |-> {}, agg |-> "none",
               listed |-> EmptyMap]

\* parsing.py find_eligible_hardware_ids alone, on the same hierarchy
CallFindEligibleHardwareIds ==
    /\ pc = "call"
    /\ last' = [last EXCEPT !.op = "find_eligible_hardware_ids",
                            !.listed = find_eligible_hardware_ids(hardware,
                                                                  samples)]
    /\ pc' = "done"
    /\ UNCHANGED <<hardware, samples, hardware_prev, samples_prev,
                   current_sims, sims_rollups, events>>

\* store_sims_rollups alone, on the published store
CallStoreSimsRollups ==
    /\ pc = "call"
    /\ \E agg \in {store_sims_rollups(current_sims, hardware, samples,
                                      sims_rollups)} :
          /\ sims_rollups' = agg.out
          /\ pc' = "done"
          /\ last' = [last EXCEPT !.op = "store_sims_rollups",
                                  !.agg = IF agg.raised THEN "raised"
                                          ELSE IF agg.publish THEN "ran"
                                          ELSE "skipped"]
          /\ UNCHANGED <<hardware, samples, hardware_prev, samples_prev,
                         current_sims, events>>

RollupNext == CallStoreSimsRollups \/ CallFindEligibleHardwareIds

RollupSpec == RollupInit /\ [][RollupNext]_vars

---------------------------------------------------------------------------
(* Properties of the aggregates *)

\* the keys of sims-rollups-json: the rollup elements and the project root
RollupNodes(hardware_dict) ==
    {Project} \cup {e \in DOMAIN hardware_dict : ~hardware_dict[e].is_component}

\* element c is nested, directly or transitively, under node
RECURSIVE NestedUnder(_, _, _)
NestedUnder(c, node, hardware_dict) ==
    \/ node = Project
    \/ /\ hardware_dict[c].parent_id # None
       /\ \/ hardware_dict[c].parent_id = node
          \/ NestedUnder(hardware_dict[c].parent_id, node, hardware_dict)

\* the eligible components of one dimension nested under node
EligibleUnder(node, dim, hardware_dict, samples_list) ==
    {c \in DOMAIN hardware_dict :
        /\ hardware_dict[c].is_component
        /\ hardware_dict[c].dim = dim
        /\ EligibleComponent(c, hardware_dict, samples_list)
        /\ NestedUnder(c, node, hardware_dict)}

\* C13: for every rollup node and the project root and for each dimension,
\* the aggregate's total is the sum of the extents of the eligible components
\* of that dimension nested directly or transitively under the node.
C13_TotalIsEligibleExtent ==
    last.agg = "ran" =>
        \A node \in RollupNodes(hardware) :
            /\ node \in DOMAIN sims_rollups
            /\ LET area == EligibleUnder(node, Dim2D, hardware, samples)
                   volume == EligibleUnder(node, Dim3D, hardware, samples)
               IN /\ sims_rollups[node][1].total =
                        SumOver(area, [c \in area |-> hardware[c].area])
                  /\ sims_rollups[node][2].total =
                        SumOver(volume, [c \in volume |-> hardware[c].volume])

C13_Witness ==
    /\ last.agg = "ran"
    /\ \E e \in DOMAIN hardware :
          /\ ~hardware[e].is_component
          /\ hardware[e].parent_id # None
          /\ sims_rollups[e][1].total >= 1
          /\ sims_rollups[hardware[e].parent_id][1].total =
                 sims_rollups[e][1].total
          /\ sims_rollups[Project][1].total = sims_rollups[e][1].total

\* C14: in every aggregate produced, for every rollup node and the project
\* root and for each dimension, the sampled extent is at most the total
\* extent.
C14_SampledAtMostTotal ==
    last.agg = "ran" =>
        \A node \in DOMAIN sims_rollups : \A d \in {1, 2} :
            sims_rollups[node][d].sampled <= sims_rollups[node][d].total

\* what handle_child gives for the direct children of a node, for one
\* dimension, read with the aggregates the pass has stored
ChildResults(node, d, sims, hardware_dict, samples_list, rollups) ==
    LET children == Children(IF node = Project THEN None ELSE node,
                             hardware_dict)
    IN [c \in children |->
          handle_child(c, sims, hardware_dict, samples_list,
                       identify_valid_samples(samples_list, hardware_dict),
                       rollups).res[d]]

\* the sum of the numbers f[x], x in S
RECURSIVE RatSumOver(_, _)
RatSumOver(S, f) ==
    IF S = {} THEN Zero
    ELSE LET x == CHOOSE y \in S : TRUE IN RatAdd(f[x], RatSumOver(S \ {x}, f))

SameNumber(a, b) == a.num = b.num /\ a.den = b.den

\* C15: for every rollup node and dimension with a positive total, the
\* aggregate computed from the direct children has density x total = the sum
\* of child.total x child.density, sampled = the sum of child.sampled and
\* CFU = the sum of child.cfu.
C15_WeightedMixture ==
    last.agg = "ran" =>
        \A node \in RollupNodes(hardware) : \A d \in {1, 2} :
            LET agg == sims_rollups[node][d]
                res == ChildResults(node, d, current_sims, hardware, samples,
                                    sims_rollups)
                ch == DOMAIN res
            IN agg.total > 0 =>
                 /\ agg.total = SumOver(ch, [c \in ch |-> res[c].total])
                 /\ agg.sampled = SumOver(ch, [c \in ch |-> res[c].sampled])
                 /\ SameNumber(RatScale(agg.total, agg.lambda),
                               RatSumOver(ch, [c \in ch |->
                                   RatScale(res[c].total, res[c].lambda)]))
                 /\ SameNumber(agg.cfu,
                               RatSumOver(ch, [c \in ch |-> res[c].cfu]))

C15_Witness ==
    /\ last.agg = "ran"
    /\ \E node \in RollupNodes(hardware) :
          LET res == ChildResults(node, 1, current_sims, hardware, samples,
                                  sims_rollups)
          IN /\ sims_rollups[node][1].total >= 3
             /\ \E c1 \in DOMAIN res, c2 \in DOMAIN res :
                   /\ res[c1].total > 0 /\ res[c2].total > 0
                   /\ ~SameNumber(res[c1].lambda, res[c2].lambda)
                   /\ res[c1].cfu.num > 0 /\ res[c2].cfu.num > 0

\* the component children handle_child leaves out: invalid, or with the
\* generic prior and no usable accountable sample
LeftOut(hardware_dict, samples_list) ==
    {c \in DOMAIN hardware_dict :
        /\ hardware_dict[c].is_component
        /\ \/ ~hardware_dict[c].valid
           \/ /\ hardware_dict[c].analogy = Generic
              /\ ChildSamples(c, samples_list,
                     identify_valid_samples(samples_list, hardware_dict)) = {}}

\* C16: in the aggregator a component child that is invalid, or has the
\* generic prior and no usable accountable sample, gives the zero result for
\* both dimensions whether the store holds a record for it or not, and
\* raises nothing.
C16_LeftOutContributesZero ==
    last.op = "store_sims_rollups" =>
        \A c \in LeftOut(hardware, samples) :
              LET with == [current_sims EXCEPT !.sims =
                              [i \in DOMAIN current_sims.sims \cup {c} |->
                                  IF i \in DOMAIN current_sims.sims
                                  THEN current_sims.sims[i]
                                  ELSE [mode |-> "prior", link |-> Analog,
                                        lambda |-> Vector(1),
                                        cfu |-> Vector(1)]]]
                  without == [current_sims EXCEPT !.sims =
                                 Restrict(current_sims.sims,
                                          DOMAIN current_sims.sims \ {c})]
              IN \A sims \in {current_sims, with, without} :
                    handle_child(c, sims, hardware, samples,
                                 identify_valid_samples(samples, hardware),
                                 sims_rollups)
                        = [ok |-> TRUE, res |-> <<empty_res, empty_res>>]

C16_Witness ==
    /\ pc = "done" /\ last.agg = "ran"
    /\ \E c \in LeftOut(hardware, samples), e \in LeftOut(hardware, samples) :
          /\ hardware[c].valid /\ hardware[c].analogy = Generic
          /\ c \in DOMAIN current_sims.sims
          /\ ~hardware[e].valid
          /\ sims_rollups[Project][1].total > 0

\* C17: a rollup's density and CFU for a dimension are scalars iff every
\* contributing child of that dimension gives a scalar; one contributing
\* child with a draw vector makes the combination a draw vector.
C17_ScalarIffAllScalar ==
    last.agg = "ran" =>
        \A node \in RollupNodes(hardware) : \A d \in {1, 2} :
            LET agg == sims_rollups[node][d]
                res == ChildResults(node, d, current_sims, hardware, samples,
                                    sims_rollups)
                contributing == {c \in DOMAIN res : res[c].total > 0}
            IN /\ agg.lambda.scalar <=>
                      (\A c \in contributing : res[c].lambda.scalar)
               /\ agg.cfu.scalar <=>
                      (\A c \in contributing : res[c].cfu.scalar)

C17_Witness ==
    /\ last.agg = "ran"
    /\ \E n1 \in RollupNodes(hardware), n2 \in RollupNodes(hardware) :
          /\ sims_rollups[n1][1].total > 0
          /\ sims_rollups[n1][1].lambda.scalar
          /\ sims_rollups[n1][1].cfu.scalar
          /\ ~sims_rollups[n2][1].lambda.scalar
          /\ ~sims_rollups[n2][1].cfu.scalar
          /\ LET res == ChildResults(n2, 1, current_sims, hardware, samples,
                                     sims_rollups)
             IN \E c \in DOMAIN res : res[c].total > 0 /\ res[c].lambda.scalar

\* C18: the aggregator goes from the deepest level up to level 2 and then to
\* the project root, so the aggregate of a child rollup is already stored
\* when its parent reads it: the pass never fails on a child aggregate, every
\* rollup gets its aggregate, and a parent's totals include its child
\* rollups' totals.
C18_ChildAggregateReady ==
    last.op = "store_sims_rollups" =>
        /\ last.agg = "ran"
        /\ \A node \in RollupNodes(hardware) :
              /\ node \in DOMAIN sims_rollups
              /\ \A c \in Children(IF node = Project THEN None ELSE node,
                                   hardware) :
                    ~hardware[c].is_component =>
                        /\ c \in DOMAIN sims_rollups
                        /\ \A d \in {1, 2} :
                              sims_rollups[node][d].total >=
                                  sims_rollups[c][d].total

\* C19: for every rollup node and the project root under which no eligible
\* component of a dimension is nested, the aggregator does not raise and
\* stores for that dimension the no-data aggregate (total 0, sampled 0,
\* density 0, CFU 0).
C19_NoDataAggregate ==
    last.op = "store_sims_rollups" =>
        \A node \in RollupNodes(hardware) :
            \A d \in {1, 2} :
                EligibleUnder(node, IF d = 1 THEN Dim2D ELSE Dim3D,
                              hardware, samples) = {}
                    => /\ last.agg = "ran"
                       /\ node \in DOMAIN sims_rollups
                       /\ sims_rollups[node][d] = empty_res

---------------------------------------------------------------------------
(* sim_component and identify_valid_samples called on their own on one valid
   component and its sample list *)

MaxSimExtent == 3

\* the valid components handed to the call: the spec components (a
\* dimension, a class of that dimension, an extent), the sampled components
\* (generic or with the named analog) and the implied components linked to
\* the second element
SimComponents ==
    {[NewRow(None, 2) EXCEPT !.valid = TRUE, !.area = x, !.type = Sampled,
                             !.analogy = a] :
        a \in {Generic, Analog}, x \in 1..MaxSimExtent}
    \cup {[NewRow(None, 2) EXCEPT !.valid = TRUE, !.area = x, !.type = Implied,
                                  !.implied_id = HwNames[2]] :
             x \in 1..MaxSimExtent}
    \cup
    {[NewRow(None, 2) EXCEPT !.valid = TRUE, !.dim = d, !.type = SpecType,
                             !.spec = s,
                             !.area = IF d = Dim2D THEN x ELSE Blank,
                             !.volume = IF d = Dim3D THEN x ELSE Blank] :
        <<d, s>> \in {ds \in HwDims \X (SPEC_ISO_CLASSES(Dim2D)
                                         \cup SPEC_ISO_CLASSES(Dim3D)) :
                         ds[2] \in SPEC_ISO_CLASSES(ds[1])},
        x \in 1..MaxSimExtent}

\* the sample lists handed to the call: none, or one row on the component
\* with an extent in one dimension or none, a tag with fitted parameters,
\* with borrowed parameters or unknown, a pour fraction of 0, 0.8, 1 or
\* 1.01 and a CFU of -1, 0 or 1
SimSampleLists ==
    {EmptyMap}
    \cup {[s \in {SampNames[1]} |->
             [Hardware_ID |-> HwNames[1], PP_Accountable |-> a,
              Sampled_Area |-> e[1], Sampled_Volume |-> e[2],
              Sampling_Notes |-> "", Eff_Tag |-> tag,
              Pour_Fraction |-> fraction, CFU |-> cfu]] :
             a \in Accountables,
             e \in {<<Blank, Blank>>, <<1, Blank>>, <<Blank, 1>>},
             tag \in DOMAIN EFFICIENCY_CONFIG \cup {";;"},
             fraction \in {0, 80, 100, 101},
             cfu \in {-1, 0, 1}}

\* the stores handed to the call: empty, a record of another component
\* (draws or a spec record), an earlier record of the component itself
SimStores ==
    {EmptyMap,
     [i \in {HwNames[2]} |->
         [mode |-> "spec", link |-> None, lambda |-> Scalar(50),
          cfu |-> Scalar(50)]]}
    \cup {[i \in {h} |-> [mode |-> "prior", link |-> Analog,
                          lambda |-> Vector(w), cfu |-> Vector(w)]] :
             h \in {HwNames[1], HwNames[2]}, w \in Draws}

SimInit ==
    /\ hardware \in {[i \in {HwNames[1]} |-> hw] : hw \in SimComponents}
    /\ hardware_prev = hardware
    /\ samples \in SimSampleLists
    /\ samples_prev = samples
    /\ current_sims \in {[noop |-> FALSE, sims |-> st] : st \in SimStores}
    /\ sims_rollups = EmptyMap
    /\ pc = "call"
    /\ events = 0
    /\ last = [op |-> "call", hw_triggered |-> TRUE, root |-> FALSE,
               metaonly |-> FALSE, raised |-> FALSE, publish |-> FALSE,
               simmed |-> {}, inputs |-> {}, deleted |-> {}, agg |-> "none",
               samples_valid |-> {}]

\* samples_valid = identify_valid_samples(samples_list, hardware_dict)
CallIdentifyValidSamples ==
    /\ pc = "call"
    /\ last' = [last EXCEPT !.op = "identify_valid_samples",
                            !.samples_valid =
                                identify_valid_samples(samples, hardware)]
    /\ pc' = "done"
    /\ UNCHANGED <<hardware, samples, hardware_prev, samples_prev,
                   current_sims, sims_rollups, events>>

\* sim_component(hw, samples_list, current_sims), its record put in the store
CallSimComponent ==
    /\ pc = "call"
    /\ \E w \in Draws :
       \E res \in {sim_component(HwNames[1], hardware[HwNames[1]], samples,
                                 current_sims.sims, w)} :
          /\ current_sims' =
                IF res.ok
                THEN [current_sims EXCEPT !.sims =
                        [i \in DOMAIN current_sims.sims \cup {HwNames[1]} |->
                            IF i = HwNames[1] THEN res.rec
                            ELSE current_sims.sims[i]]]
                ELSE current_sims
          /\ last' = [last EXCEPT !.op = "sim_component",
                                  !.raised = ~res.ok,
                                  !.simmed = IF res.ok THEN {HwNames[1]}
                                             ELSE {}]
          /\ pc' = "done"
          /\ UNCHANGED <<hardware, samples, hardware_prev, samples_prev,
                         sims_rollups, events>>

SimNext == CallSimComponent \/ CallIdentifyValidSamples

SimSpec == SimInit /\ [][SimNext]_vars

\* C20: for a valid spec component, sim_component returns mode spec, no
\* link, the scalar density of the table entry for (dimension, spec class)
\* and the scalar CFU density x extent, whatever the sample list and the
\* store handed in.
C20_SpecRecord ==
    [][(last'.op = "sim_component"
        /\ hardware[HwNames[1]].type = SpecType) =>
          LET hw == hardware[HwNames[1]]
              density == SPEC_DENSITY_MAP(hw.dim, hw.spec)
              extent == IF hw.dim = Dim2D THEN hw.area ELSE hw.volume
          IN /\ ~last'.raised
             /\ current_sims'.sims[HwNames[1]] =
                   [mode |-> "spec", link |-> None,
                    lambda |-> [scalar |-> TRUE, v |-> density],
                    cfu |-> [scalar |-> TRUE, v |-> density * extent]]]_vars

C20_Witness ==
    /\ pc = "done"
    /\ last.op = "sim_component"
    /\ hardware[HwNames[1]].dim = Dim3D
    /\ hardware[HwNames[1]].volume = 2
    /\ samples # EmptyMap
    /\ HwNames[2] \in DOMAIN current_sims.sims
    /\ current_sims.sims[HwNames[1]].lambda = [scalar |-> TRUE, v |-> 130]
    /\ current_sims.sims[HwNames[1]].cfu = [scalar |-> TRUE, v |-> 260]

\* n_sims: the number of draws the prior branch asks for (1000 in the source)
NSims == 2

\* the catalog draws of the named analog, as many as n_sims
POSTERIOR_MAP(analogy) == [k \in 1..NSims |-> 4 * k - 1]

\* analogy_prior[rng.choice(len(analogy_prior), size=n_sims, replace=False)]:
\* the draws behind the record the prior branch returns under generator
\* outcome w. rng.choice without replacement yields n_sims distinct indices
\* in the order the generator picks them: outcome 1 picks them in catalog
\* order, another outcome in the opposite order
prior_draws(analogy, w) ==
    LET analogy_prior == POSTERIOR_MAP(analogy)
        choice == IF w = 1 THEN [k \in 1..NSims |-> k]
                  ELSE [k \in 1..NSims |-> Len(analogy_prior) + 1 - k]
    IN [k \in 1..NSims |-> analogy_prior[choice[k]]]

\* C21: for a Sampled component with the named analog and no usable sample,
\* sim_component returns mode prior and density draws that are the analog's
\* catalog draws verbatim: same values, same order, same count.
C21_PriorVerbatim ==
    [][(/\ last'.op = "sim_component"
        /\ hardware[HwNames[1]].type = Sampled
        /\ hardware[HwNames[1]].analogy = Analog
        /\ SimSamples(HwNames[1], samples) = {}) =>
          /\ ~last'.raised
          /\ current_sims'.sims[HwNames[1]].mode = "prior"
          /\ ~current_sims'.sims[HwNames[1]].lambda.scalar
          /\ prior_draws(Analog, current_sims'.sims[HwNames[1]].lambda.v)
                = POSTERIOR_MAP(Analog)]_vars

\* C22: for an Implied component whose linked component has a record in the
\* store, sim_component returns mode implied, the implied link id as link,
\* the linked record's density draws themselves (not drawn anew) and a CFU
\* of the same shape.
C22_ImpliedCopiesLinked ==
    [][(/\ last'.op = "sim_component"
        /\ hardware[HwNames[1]].type = Implied
        /\ hardware[HwNames[1]].implied_id \in DOMAIN current_sims.sims) =>
          LET linked == current_sims.sims[hardware[HwNames[1]].implied_id]
              rec == current_sims'.sims[HwNames[1]]
          IN /\ ~last'.raised
             /\ rec.mode = "implied"
             /\ rec.link = hardware[HwNames[1]].implied_id
             /\ rec.lambda = linked.lambda
             /\ rec.cfu.scalar = linked.lambda.scalar]_vars

C22_Witness ==
    /\ pc = "done"
    /\ last.op = "sim_component"
    /\ hardware[HwNames[1]].type = Implied
    /\ HwNames[2] \in DOMAIN current_sims.sims
    /\ current_sims.sims[HwNames[1]].mode = "implied"
    /\ current_sims.sims[HwNames[1]].lambda = Vector(2)
    /\ current_sims.sims[HwNames[1]].cfu = Vector(1)

\* C23: identify_valid_samples returns a sample's id iff its extent for its
\* component's dimension is a positive number, its tag resolves to an
\* efficiency entry, its pour fraction is in (0, 1] and its CFU is a
\* non-negative integer.
C23_ValidIffAllChecksPass ==
    (pc = "done" /\ last.op = "identify_valid_samples") =>
        \A s \in DOMAIN samples :
            s \in last.samples_valid <=>
                /\ (IF hardware[samples[s].Hardware_ID].dim = Dim2D
                    THEN samples[s].Sampled_Area
                    ELSE samples[s].Sampled_Volume) > 0
                /\ samples[s].Eff_Tag \in DOMAIN EFFICIENCY_CONFIG
                /\ 0 < samples[s].Pour_Fraction
                /\ samples[s].Pour_Fraction <= 100
                /\ samples[s].CFU >= 0

\* C24: after any sequence of hardware edits, a component's valid flag is
\* true iff its dimension, its extent and the field its kind requires
\* (analogy / implied link / spec class) are present and, for an Implied
\* component, the linked element exists and is a valid Sampled component.
C24_ValidIffConfigured ==
    \A i \in DOMAIN hardware :
        hardware[i].is_component =>
            LET hw == hardware[i]
                extent == IF hw.dim = Dim2D THEN hw.area ELSE hw.volume
                required == CASE hw.type = Sampled -> hw.analogy
                              [] hw.type = Implied -> hw.implied_id
                              [] hw.type = SpecType -> hw.spec
                              [] OTHER -> None
            IN hw.valid <=>
                  /\ hw.dim \in HwDims
                  /\ extent # Blank
                  /\ required # None
                  /\ hw.type = Implied =>
                        /\ hw.implied_id \in DOMAIN hardware
                        /\ hardware[hw.implied_id].valid
                        /\ hardware[hw.implied_id].type = Sampled

\* C25: an element is a rollup iff at least one element has it as parent;
\* hardware_record turns a component that gains a child into a rollup with
\* its component fields cleared and valid false, and hardware_delete_confirm
\* turns a rollup that loses its last child into an unconfigured, invalid
\* component.
C25_RollupIffHasChild ==
    /\ [](\A i \in DOMAIN hardware :
            ~hardware[i].is_component <=>
                \E j \in DOMAIN hardware : hardware[j].parent_id = i)
    /\ [][last'.op \in {"hardware_record", "hardware_delete_confirm"} =>
            \A i \in DOMAIN hardware \cap DOMAIN hardware' :
                hardware[i].is_component # hardware'[i].is_component =>
                    /\ ~hardware'[i].valid
                    /\ hardware'[i].dim = Dim2D
                    /\ hardware'[i].area = Blank
                    /\ hardware'[i].volume = Blank
                    /\ hardware'[i].type = None
                    /\ hardware'[i].analogy = None
                    /\ hardware'[i].implied_id = None
                    /\ hardware'[i].spec = None]_vars

C25_Witness ==
    /\ last.op = "hardware_delete_confirm"
    /\ ~last.raised
    /\ DOMAIN hardware = {HwNames[1]}
    /\ hardware[HwNames[1]].is_component
    /\ hardware[HwNames[1]].type = None

\* C26: hardware_delete_confirm on an element clears the implied link and the
\* valid flag of every element whose implied link was that element and
\* removes every sample of it; and no element's implied link ever names an
\* id absent from the hierarchy.
C26_NoDanglingImpliedLink ==
    /\ [](\A i \in DOMAIN hardware :
            hardware[i].implied_id # None =>
                hardware[i].implied_id \in DOMAIN hardware)
    /\ [][last'.op = "hardware_delete_confirm" =>
            \A x \in DOMAIN hardware \ DOMAIN hardware' :
                /\ \A i \in DOMAIN hardware' :
                      hardware[i].implied_id = x =>
                          /\ hardware'[i].implied_id = None
                          /\ ~hardware'[i].valid
                /\ \A s \in DOMAIN samples' :
                      samples'[s].Hardware_ID # x]_vars

C26_Witness ==
    /\ last.op = "hardware_delete_confirm"
    /\ \E i \in DOMAIN hardware :
          /\ hardware[i].type = Implied
          /\ hardware[i].implied_id = None
          /\ ~hardware[i].valid
          /\ hardware[i].area # Blank

\* C27: when hardware_record coerces component X to a rollup, the store
\* loses X's record and the records of the implied components linked to X
\* and no component is left eligible without a record; when
\* hardware_delete_confirm coerces a rollup to a component, no record is
\* created for it.
C27_CoercionIsRemovalOrAddition ==
    [][/\ last'.op = "hardware_record" =>
            \A x \in DOMAIN hardware :
                (hardware[x].is_component /\ ~hardware'[x].is_component) =>
                    /\ ~last'.raised
                    /\ x \notin DOMAIN current_sims'.sims
                    /\ \A b \in DOMAIN hardware :
                          (hardware[b].type = Implied
                           /\ hardware[b].implied_id = x)
                              => b \notin DOMAIN current_sims'.sims
                    /\ \A c \in DOMAIN hardware' :
                          (hardware'[c].is_component
                           /\ EligibleComponent(c, hardware', samples'))
                              => c \in DOMAIN current_sims'.sims
       /\ last'.op = "hardware_delete_confirm" =>
            \A x \in DOMAIN hardware \cap DOMAIN hardware' :
                (~hardware[x].is_component /\ hardware'[x].is_component) =>
                    /\ ~last'.raised
                    /\ x \notin DOMAIN current_sims'.sims]_vars

\* C29: in every event, the sample rows a Bayesian update of a Sampled
\* component takes as likelihood data are exactly that component's usable
\* samples (accountable and passing validation); a sample that fails
\* validation is never among them.
C29_InputsAreUsableSamples ==
    (pc = "idle" /\ ~last.raised) =>
        last.inputs =
            {s \in identify_valid_samples(samples, hardware) :
                /\ samples[s].PP_Accountable = "Yes"
                /\ samples[s].Hardware_ID \in last.simmed
                /\ hardware[samples[s].Hardware_ID].type = Sampled}

C30_ModeAndLinkMatchOwner ==
    pc = "idle" =>
        \A c \in DOMAIN current_sims.sims :
            /\ c \in DOMAIN hardware
            /\ LET hw == hardware[c]
                   rec == current_sims.sims[c]
                   usable == {s \in identify_valid_samples(samples, hardware) :
                                 /\ samples[s].Hardware_ID = c
                                 /\ samples[s].PP_Accountable = "Yes"}
               IN CASE hw.type = SpecType ->
                         rec.mode = "spec" /\ rec.link = None
                    [] hw.type = Implied ->
                         rec.mode = "implied" /\ rec.link = hw.implied_id
                    [] hw.type = Sampled ->
                         /\ rec.mode = IF usable # {} THEN "posterior"
                                       ELSE "prior"
                         /\ rec.link = hw.analogy
                    [] OTHER -> FALSE

\* C31: after any sequence of hardware and sample edits every sample's
\* Hardware ID names an element of the hierarchy that is a component, is of
\* type Sampled and is valid.
C31_SamplesOnValidSampled ==
    pc = "idle" =>
        \A s \in DOMAIN samples :
            /\ samples[s].Hardware_ID \in DOMAIN hardware
            /\ hardware[samples[s].Hardware_ID].is_component
            /\ hardware[samples[s].Hardware_ID].type = Sampled
            /\ hardware[samples[s].Hardware_ID].valid

---------------------------------------------------------------------------
(* Deep hierarchies: hardware is added and deleted, nothing is configured *)

\* number of elements of a deep hierarchy
MaxTreeHw == 6
\* number of add and delete events on it
MaxTreeEvents == 7

\* record.py hardware_record (button-record-hardware)
TreeHardwareRecord ==
    /\ pc = "idle"
    /\ events < MaxTreeEvents
    /\ Cardinality(DOMAIN hardware) < MaxTreeHw
    /\ \E hw_parent_id \in {None} \cup ParentOptions(hardware, samples) :
          LET hw_id == FirstFree(HwNames, DOMAIN hardware)
              hd == hardware_record(hardware, hw_id, hw_parent_id)
          IN \E w \in DrawsFor(hd) :
                Process("hardware_record", hd, samples, TRUE, w, "idle")

\* delete.py hardware_delete_confirm (enabled for components only)
TreeHardwareDeleteConfirm ==
    /\ pc = "idle"
    /\ events < MaxTreeEvents
    /\ \E hw_id \in DOMAIN hardware :
          /\ hardware[hw_id].is_component
          /\ LET hd == hardware_delete_confirm(hardware, hw_id)
             IN \E w \in DrawsFor(hd) :
                   Process("hardware_delete_confirm", hd,
                           delete_samples_of(samples, hw_id), TRUE, w, "idle")

TreeNext == PageLoad \/ TreeHardwareRecord \/ TreeHardwareDeleteConfirm

TreeSpec == Init /\ [][TreeNext]_vars

\* C32: after any sequence of hardware add and delete operations every
\* element without a parent has level 2, every other element's parent_id
\* names an existing element one level above it, and no level exceeds 6.
C32_LevelsFormForest ==
    \A i \in DOMAIN hardware :
        /\ hardware[i].level <= 6
        /\ IF hardware[i].parent_id = None THEN hardware[i].level = 2
           ELSE /\ hardware[i].parent_id \in DOMAIN hardware
                /\ hardware[i].level = hardware[hardware[i].parent_id].level + 1

\* a chain that reaches level 6, after a delete
C32_Witness ==
    /\ \E i \in DOMAIN hardware : hardware[i].level = 6
    /\ last.op = "hardware_record"
    /\ events = MaxTreeEvents

---------------------------------------------------------------------------
(* update.py: likelihoods and update_analogy_prior called on their own *)

\* a recovery efficiency is a beta draw, here a number of EffDen-ths
EffDen == 4
\* a rate is a number of RateDen-ths: Pour_Fraction is in hundredths and
\* the efficiency in EffDen-ths, so RateDen is 100 * EffDen
RateDen == 400
\* np.exp of a float64 below -ExpUnderflow is 0.0
ExpUnderflow == 745
\* the largest CFU count of a sample row
MaxCFU == 7
\* the largest number of sample rows of the component
MaxRows == 2

\* scipy.special.factorial
RECURSIVE Factorial(_)
Factorial(n) == IF n <= 0 THEN 1 ELSE n * Factorial(n - 1)

\* an integer bound of np.log: ln(x) <= LogBound(x) for an integer x >= 1
RECURSIVE LogBound(_)
LogBound(x) == IF x <= 1 THEN 0 ELSE 1 + LogBound(x \div 2)

\* update.py likelihoods(lambda_samples, data, log, joint) with the
\* efficiencies eff[p][i] it drew.  A log-likelihood is the real number
\*   SUM k * ln(rn / RateDen) over lnr  -  ln(lnd)  -  lin / RateDen
\* or -inf or nan; a likelihood is "pos", "zero" or "nan" with its log.
likelihoods(lambda_samples, data, eff, log, joint) ==
    LET rn(p, i) == lambda_samples[p] * data[i].Sampled_Area
                       * data[i].Pour_Fraction * eff[p][i]
        term(p, i) ==
            [kind |-> IF rn(p, i) > 0 THEN "fin"
                      ELSE IF data[i].CFU = 0 THEN "nan" ELSE "-inf",
             lnr |-> <<[k |-> data[i].CFU, rn |-> rn(p, i)]>>,
             lnd |-> 1,
             lin |-> Factorial(data[i].CFU) * RateDen + rn(p, i)]
        add(a, b) ==
            [kind |-> IF "nan" \in {a.kind, b.kind} THEN "nan"
                      ELSE IF "-inf" \in {a.kind, b.kind} THEN "-inf"
                      ELSE "fin",
             lnr |-> a.lnr \o b.lnr, lnd |-> a.lnd * b.lnd,
             lin |-> a.lin + b.lin]
        sum[n \in 0..Len(data)] ==
            [p \in DOMAIN lambda_samples |->
                IF n = 0 THEN [kind |-> "fin", lnr |-> <<>>, lnd |-> 1,
                               lin |-> 0]
                ELSE add(sum[n - 1][p], term(p, n))]
        upper(v, n) == IF n = 0 THEN 0
                       ELSE v.lnr[n].k * LogBound(v.lnr[n].rn)
        ub(v) ==
            LET s[n \in 0..Len(v.lnr)] ==
                    IF n = 0 THEN 0 ELSE s[n - 1] + upper(v, n)
            IN s[Len(v.lnr)] * RateDen - v.lin
        exp(v) == [kind |-> IF v.kind = "nan" THEN "nan"
                            ELSE IF v.kind = "-inf" THEN "zero"
                            ELSE IF ub(v) < -(ExpUnderflow + 1) * RateDen
                            THEN "zero" ELSE "pos",
                   log |-> v]
        log_lik == IF joint THEN sum[Len(data)]
                   ELSE [i \in DOMAIN data |->
                            [p \in DOMAIN lambda_samples |-> term(p, i)]]
    IN IF log THEN log_lik
       ELSE IF joint
       THEN [p \in DOMAIN lambda_samples |-> exp(log_lik[p])]
       ELSE [i \in DOMAIN data |->
                [p \in DOMAIN lambda_samples |-> exp(log_lik[i][p])]]

\* update.py update_analogy_prior(lambda_samples, data, resolution = NSims):
\* the set of its outcomes over the resampling rng.choice can draw (which
\* raises on weights that are nan); generic_prior_solution returns fresh
\* gamma draws.  No prior (None) is the empty sequence.
update_analogy_prior(lambda_samples, data, eff) ==
    IF lambda_samples = <<>>
    THEN {[ok |-> TRUE, idx |-> <<>>, draws |-> [n \in 1..NSims |-> "gamma"]]}
    ELSE LET lik == likelihoods(lambda_samples, data, eff, FALSE, TRUE)
             support == {p \in DOMAIN lik : lik[p].kind = "pos"}
         IN IF support = {} \/ \E p \in DOMAIN lik : lik[p].kind = "nan"
            THEN {[ok |-> FALSE, idx |-> <<>>, draws |-> <<>>]}
            ELSE {[ok |-> TRUE, idx |-> resample_idx,
                   draws |-> [n \in 1..NSims |->
                                 lambda_samples[resample_idx[n]]]] :
                     resample_idx \in [1..NSims -> support]}

\* the calls: prior draws, the data rows of usable samples of the component
\* (positive extent, pour fraction in (0, 1], a CFU count) and the
\* efficiencies drawn for each (particle, sample) pair
UpdateInit ==
    /\ hardware = EmptyMap
    /\ samples = EmptyMap
    /\ hardware_prev = EmptyMap
    /\ samples_prev = EmptyMap
    /\ current_sims = [noop |-> TRUE, sims |-> EmptyMap]
    /\ sims_rollups = EmptyMap
    /\ pc = "call"
    /\ events = 0
    /\ \E lambda_samples \in {<<>>, POSTERIOR_MAP(Analog)},
          n \in 1..MaxRows :
          \E data \in [1..n -> [CFU : {0, 1, MaxCFU},
                                Sampled_Area : {1, 250},
                                Pour_Fraction : {50, 100}]] :
             \E eff \in [1..NSims -> [1..n -> {1, EffDen - 1}]] :
                last = [op |-> "init", lambda_samples |-> lambda_samples,
                        data |-> data, eff |-> eff, log |-> FALSE,
                        joint |-> FALSE, out |-> <<>>]

\* update.py likelihoods
CallLikelihoods ==
    /\ pc = "call"
    /\ last.lambda_samples # <<>>
    /\ \E log \in BOOLEAN, joint \in BOOLEAN :
          last' = [last EXCEPT !.op = "likelihoods", !.log = log,
                               !.joint = joint,
                               !.out = likelihoods(last.lambda_samples,
                                           last.data, last.eff, log, joint)]
    /\ pc' = "done"
    /\ UNCHANGED <<hardware, samples, hardware_prev, samples_prev,
                   current_sims, sims_rollups, events>>

\* update.py update_analogy_prior
CallUpdateAnalogyPrior ==
    /\ pc = "call"
    /\ \E out \in update_analogy_prior(last.lambda_samples, last.data,
                                       last.eff) :
          last' = [last EXCEPT !.op = "update_analogy_prior", !.out = out]
    /\ pc' = "done"
    /\ UNCHANGED <<hardware, samples, hardware_prev, samples_prev,
                   current_sims, sims_rollups, events>>

UpdateNext == CallLikelihoods \/ CallUpdateAnalogyPrior

UpdateSpec == UpdateInit /\ [][UpdateNext]_vars

\* C33: for a named analog and usable samples update_analogy_prior returns
\* exactly N density draws, each one of the analog's stored prior draws,
\* and never a prior draw whose weight is zero.
C33_ResamplesPriorDraws ==
    (last.op = "update_analogy_prior" /\ last.lambda_samples # <<>>) =>
        LET lik == likelihoods(last.lambda_samples, last.data, last.eff,
                               FALSE, TRUE)
        IN /\ last.out.ok
           /\ Len(last.out.draws) = NSims
           /\ \A n \in 1..NSims :
                 \E p \in DOMAIN last.lambda_samples :
                    /\ last.out.draws[n] = last.lambda_samples[p]
                    /\ last.out.idx[n] = p
                    /\ lik[p].kind # "zero"

\* C34: likelihoods computes for each (particle, sample) pair the Poisson
\* log-pmf k * ln(r) - ln(k!) - r with r = lambda * exposure * efficiency
\* and sums the terms over the samples into the joint log-likelihood.
C34_PoissonLogPmf ==
    (last.op = "likelihoods" /\ last.log /\ last.joint) =>
        \A p \in DOMAIN last.lambda_samples :
            LET v == last.out[p]
                rn(i) == last.lambda_samples[p] * last.data[i].Sampled_Area
                            * last.data[i].Pour_Fraction * last.eff[p][i]
                prod[n \in 0..Len(last.data)] ==
                    IF n = 0 THEN 1
                    ELSE prod[n - 1] * Factorial(last.data[n].CFU)
                rate[n \in 0..Len(last.data)] ==
                    IF n = 0 THEN 0 ELSE rate[n - 1] + rn(n)
            IN /\ v.kind = "fin"
               /\ v.lnr = [i \in DOMAIN last.data |->
                              [k |-> last.data[i].CFU, rn |-> rn(i)]]
               /\ v.lnd = prod[Len(last.data)]
               /\ v.lin = rate[Len(last.data)]

\* C35: find_eligible_hardware_ids returns, keyed by level, exactly the
\* eligible components, the rollups with an eligible component nested under
\* them, and the project root at level 1 iff a component is eligible.
C35_ListedAreEligibleAndAbove ==
    last.op = "find_eligible_hardware_ids" =>
        LET eligible == {c \in DOMAIN hardware :
                            /\ hardware[c].is_component
                            /\ EligibleComponent(c, hardware, samples)}
            above == {r \in DOMAIN hardware :
                         /\ ~hardware[r].is_component
                         /\ \E c \in eligible : NestedUnder(c, r, hardware)}
            expected(l) == IF l = 1
                           THEN IF eligible = {} THEN {} ELSE {Project}
                           ELSE {i \in eligible \cup above :
                                    hardware[i].level = l}
        IN /\ \A l \in DOMAIN last.listed : last.listed[l] = expected(l)
           /\ \A l \in 1..(MaxChainHw + 1) :
                 l \notin DOMAIN last.listed => expected(l) = {}

\* a rollup over an eligible component is listed with the project root, a
\* component that is not eligible is not
C35_Witness ==
    /\ last.op = "find_eligible_hardware_ids"
    /\ \E r \in DOMAIN hardware :
          /\ ~hardware[r].is_component
          /\ hardware[r].level \in DOMAIN last.listed
          /\ r \in last.listed[hardware[r].level]
    /\ 1 \in DOMAIN last.listed
    /\ \E c \in DOMAIN hardware :
          /\ hardware[c].is_component
          /\ \A l \in DOMAIN last.listed : c \notin last.listed[l]

\* C36: the controller's is_eligible, the aggregator's child test in
\* handle_child and find_eligible_hardware_ids classify every component of
\* every hierarchy and sample list identically.
C36_SameClassification ==
    last.op = "find_eligible_hardware_ids" =>
        \A c \in DOMAIN hardware :
            hardware[c].is_component =>
                LET samples_valid == identify_valid_samples(samples, hardware)
                    child == handle_child(c, current_sims, hardware, samples,
                                          samples_valid, sims_rollups)
                    controller == is_eligible(c, hardware[c],
                                      Restrict(samples, samples_valid))
                    aggregator == ~(child.ok
                                    /\ child.res = <<empty_res, empty_res>>)
                    listed == \E l \in DOMAIN last.listed :
                                  c \in last.listed[l]
                IN /\ controller <=> aggregator
                   /\ controller <=> listed

\* a generic-prior component without a usable sample next to an eligible one
C36_Witness ==
    /\ last.op = "find_eligible_hardware_ids"
    /\ \E c \in DOMAIN hardware, e \in DOMAIN hardware :
          /\ hardware[c].is_component /\ hardware[c].valid
          /\ hardware[c].analogy = Generic
          /\ \A l \in DOMAIN last.listed : c \notin last.listed[l]
          /\ hardware[e].is_component
          /\ hardware[e].level \in DOMAIN last.listed
          /\ e \in last.listed[hardware[e].level]
          /\ samples # EmptyMap

\* C37: whenever the no-op flag is true after an event, the stored
\* aggregates equal, in total and sampled extent of every node and
\* dimension (a contributing component adds its extent to the total), what
\* a full aggregation over the current hierarchy, samples and store gives.
C37_NoopLeavesAggregatesCurrent ==
    (pc = "idle" /\ last.op # "init" /\ ~last.raised /\ current_sims.noop) =>
        LET full == store_sims_rollups([current_sims EXCEPT !.noop = FALSE],
                                       hardware, samples, sims_rollups)
        IN /\ ~full.raised
           /\ DOMAIN full.out = DOMAIN sims_rollups
           /\ \A node \in DOMAIN full.out : \A d \in {1, 2} :
                 /\ sims_rollups[node][d].total = full.out[node][d].total
                 /\ sims_rollups[node][d].sampled = full.out[node][d].sampled

\* C38: after every processed event that is not metadata-only the no-op
\* flag is true iff the event added, removed or recomputed no record; every
\* handled case writes the flag.
C38_NoopIffNoRecordTouched ==
    [][(/\ pc' = "idle"
        /\ last' # last
        /\ ~last'.raised
        /\ last'.publish
        /\ ~last'.metaonly) =>
          (current_sims'.noop <=>
              /\ last'.simmed = {}
              /\ last'.deleted = {}
              /\ current_sims'.sims = current_sims.sims)]_vars

---------------------------------------------------------------------------
(* diffs.py: the callbacks an edit triggers, as the Dash renderer runs them.
   A store holds the number of the edit that wrote its content; a diff is
   <<the snapshot it was computed against, the content it was computed for>>.
   A callback is requested when one of its Inputs is written, waits while a
   callback that outputs one of its Inputs is requested or running, reads
   its Inputs and States when it starts and writes its Output when it
   returns.  pc[c] = [req, run]; last holds hardware-diff, samples-diff, the
   arguments each running callback read, and the diffs written since the
   controller last started. *)

\* number of user edits
MaxEdits == 2

Callbacks == {"hardware_broadcast", "samples_broadcast", "hardware_increment_diff", "samples_increment", "store_sims_components"}

\* layout.py: the stores of a fresh page; every callback has its initial call
DashInit ==
    /\ hardware = 1
    /\ samples = 1
    /\ hardware_prev = 0
    /\ samples_prev = 0
    /\ current_sims = [hardware |-> 0, samples |-> 0]
    /\ sims_rollups = EmptyMap
    /\ pc = [c \in Callbacks |-> [req |-> TRUE, run |-> FALSE]]
    /\ events = 0
    /\ last = [hardware_diff |-> <<0, 0>>, samples_diff |-> <<0, 0>>,
               args |-> [c \in Callbacks |-> <<>>], triggered |-> {},
               read |-> [triggered |-> {}],
               before |-> [hardware |-> [v \in {1} |-> 0],
                           samples |-> [v \in {1} |-> 0]]]

\* the requested callbacks that can start: not running, and no callback
\* that outputs one of their Inputs is requested or running
Ready ==
    LET feeds(c) ==
            CASE c = "hardware_increment_diff" -> {"hardware_broadcast"}
              [] c = "samples_increment" -> {"samples_broadcast"}
              [] c = "store_sims_components" ->
                    {"hardware_broadcast", "samples_broadcast"}
              [] OTHER -> {}
    IN {c \in Callbacks :
          /\ pc[c].req /\ ~pc[c].run
          /\ \A f \in feeds(c) : ~pc[f].req /\ ~pc[f].run}

\* a user edit writes hardware-json (record, configure), datatable-samples
\* (sample form, table) or both (delete.py hardware_delete_confirm); the
\* page does not wait for running callbacks
UserEdit ==
    /\ events < MaxEdits
    /\ Ready = {}
    /\ \E stores \in {{"hardware"}, {"samples"}, {"hardware", "samples"}} :
          /\ hardware' = IF "hardware" \in stores THEN events + 2 ELSE hardware
          /\ samples' = IF "samples" \in stores THEN events + 2 ELSE samples
          /\ pc' = [c \in Callbacks |->
                      IF \/ c = "hardware_broadcast" /\ "hardware" \in stores
                         \/ c = "samples_broadcast" /\ "samples" \in stores
                      THEN [pc[c] EXCEPT !.req = TRUE] ELSE pc[c]]
          /\ last' = [last EXCEPT !.before =
                         [k \in {"hardware", "samples"} |->
                            IF k \notin stores THEN @[k]
                            ELSE [v \in DOMAIN @[k] \cup {events + 2} |->
                                    IF v \in DOMAIN @[k] THEN @[k][v]
                                    ELSE IF k = "hardware" THEN hardware
                                    ELSE samples]]]
    /\ events' = events + 1
    /\ UNCHANGED <<hardware_prev, samples_prev, current_sims, sims_rollups>>

\* the renderer starts every requested callback that is not waiting, before
\* it handles the next response or user event: each reads its Inputs and
\* States as the page holds them now
Dispatch ==
    LET ready == Ready
        reads == [hardware |-> hardware, samples |-> samples,
                  hardware_prev |-> hardware_prev,
                  samples_prev |-> samples_prev,
                  hardware_diff |-> last.hardware_diff,
                  samples_diff |-> last.samples_diff,
                  triggered |-> last.triggered]
    IN /\ ready # {}
       /\ pc' = [c \in Callbacks |->
                   IF c \in ready THEN [req |-> FALSE, run |-> TRUE]
                   ELSE pc[c]]
       /\ last' = [last EXCEPT
                     !.args = [c \in Callbacks |->
                                 IF c \in ready THEN reads ELSE @[c]],
                     !.triggered = IF "store_sims_components" \in ready
                                   THEN {} ELSE @,
                     !.read = IF "store_sims_components" \in ready
                              THEN reads ELSE @]
       /\ UNCHANGED <<hardware, samples, hardware_prev, samples_prev,
                      current_sims, sims_rollups, events>>

\* diffs.py hardware_broadcast returns DeepDiff(hardware_prev, hardware_dict)
HardwareBroadcast ==
    /\ pc["hardware_broadcast"].run
    /\ Ready = {}
    /\ last' = [last EXCEPT
                  !.hardware_diff =
                      <<last.args["hardware_broadcast"].hardware_prev,
                        last.args["hardware_broadcast"].hardware>>,
                  !.triggered = @ \cup {"hardware"}]
    /\ pc' = [pc EXCEPT !["hardware_broadcast"].run = FALSE,
                        !["hardware_increment_diff"].req = TRUE,
                        !["store_sims_components"].req = TRUE]
    /\ UNCHANGED <<hardware, samples, hardware_prev, samples_prev,
                   current_sims, sims_rollups, events>>

\* diffs.py samples_broadcast returns DeepDiff(samples_prev, samples_list)
SamplesBroadcast ==
    /\ pc["samples_broadcast"].run
    /\ Ready = {}
    /\ last' = [last EXCEPT
                  !.samples_diff =
                      <<last.args["samples_broadcast"].samples_prev,
                        last.args["samples_broadcast"].samples>>,
                  !.triggered = @ \cup {"samples"}]
    /\ pc' = [pc EXCEPT !["samples_broadcast"].run = FALSE,
                        !["samples_increment"].req = TRUE,
                        !["store_sims_components"].req = TRUE]
    /\ UNCHANGED <<hardware, samples, hardware_prev, samples_prev,
                   current_sims, sims_rollups, events>>

\* diffs.py hardware_increment_diff returns, after its sleep, the
\* hardware-json it read
HardwareIncrementDiff ==
    /\ pc["hardware_increment_diff"].run
    /\ Ready = {}
    /\ hardware_prev' = last.args["hardware_increment_diff"].hardware
    /\ pc' = [pc EXCEPT !["hardware_increment_diff"].run = FALSE]
    /\ UNCHANGED <<hardware, samples, samples_prev, current_sims,
                   sims_rollups, events, last>>

\* diffs.py samples_increment returns the datatable-samples it read
SamplesIncrement ==
    /\ pc["samples_increment"].run
    /\ Ready = {}
    /\ samples_prev' = last.args["samples_increment"].samples
    /\ pc' = [pc EXCEPT !["samples_increment"].run = FALSE]
    /\ UNCHANGED <<hardware, samples, hardware_prev, current_sims,
                   sims_rollups, events, last>>

\* results.py store_sims_components returns the store for the hierarchy and
\* the samples it read
StoreSimsComponents ==
    /\ pc["store_sims_components"].run
    /\ Ready = {}
    /\ current_sims' = [hardware |-> last.args["store_sims_components"].hardware,
                        samples |-> last.args["store_sims_components"].samples]
    /\ pc' = [pc EXCEPT !["store_sims_components"].run = FALSE]
    /\ UNCHANGED <<hardware, samples, hardware_prev, samples_prev,
                   sims_rollups, events, last>>

DashNext ==
    \/ UserEdit
    \/ Dispatch
    \/ HardwareBroadcast
    \/ SamplesBroadcast
    \/ HardwareIncrementDiff
    \/ SamplesIncrement
    \/ StoreSimsComponents

DashSpec == DashInit /\ [][DashNext]_vars

\* C39: for every edit and under every interleaving of its callbacks the
\* diff is computed against the content as it stood before that edit, the
\* controller reads that same snapshot as previous snapshot, and an edit is
\* processed completely before the next diff is computed.
C39_ControllerReadsSnapshotOfDiff ==
    /\ \A k \in last.read.triggered :
          LET diff == IF k = "hardware" THEN last.read.hardware_diff
                      ELSE last.read.samples_diff
              prev == IF k = "hardware" THEN last.read.hardware_prev
                      ELSE last.read.samples_prev
          IN /\ prev = diff[1]
             /\ diff[1] = last.before[k][diff[2]]
    /\ pc["hardware_broadcast"].run =>
          current_sims.hardware =
              last.before.hardware[last.args["hardware_broadcast"].hardware]
    /\ pc["samples_broadcast"].run =>
          current_sims.samples =
              last.before.samples[last.args["samples_broadcast"].samples]

====
